---------------------------- MODULE Spec2Model ----------------------------
(***************************************************************************)
(* Model of the modkit base-modification pileup engine.                    *)
(*                                                                         *)
(*   SpecFV      FeatureVector: add_feature calls followed by one decode   *)
(*               (src/src/mod_pileup.rs, 35-402).                          *)
(*   SpecRegion  process_region: the pileup columns of one window, the     *)
(*               alignments of each column, decode and insert              *)
(*               (src/src/mod_pileup.rs, 404-588).                         *)
(*   SpecCaller  MultipleThresholdModCaller: thresholds and call           *)
(*               (spec sections 3, 4.1, 4.2; src/src/commands.rs).         *)
(*   SpecFilter  StrandedPositionFilter: from_bed_file, contains, and the  *)
(*               motif-derived filter of load_regions                      *)
(*               (src/src/position_filter.rs; extract/subcommand.rs).      *)
(*   SpecChunks  IntervalChunks (spec section 4.7).                        *)
(*   SpecPipe    ExtractMods::run: thread pool, bounded channel, consumer  *)
(*               (src/src/extract/subcommand.rs, 452-866); SpecPipeFair    *)
(*               adds the scheduling of the threads.                       *)
(*   SpecWriter  ModBasePileup::iter_counts and BedMethylWriter::write     *)
(*               (src/src/mod_pileup.rs, 456-462; src/src/writers.rs).     *)
(*   SpecRecords ExtractMods::process_records_to_chan                      *)
(*               (src/src/extract/subcommand.rs, 868-930).                 *)
(*   SpecWindow  PileupIter::next and the position loop of process_region  *)
(*               over any stream of columns (src/src/mod_pileup.rs).       *)
(*   SpecSample  SampleModBaseProbs::run and the collection of the sampled *)
(*               probabilities (src/src/commands.rs, 337-438;              *)
(*               src/src/read_ids_to_base_mod_probs.rs, 37-332).           *)
(*   SpecProfile ReadsBaseModProfile: process_records, op, op_mut          *)
(*               (src/src/read_ids_to_base_mod_probs.rs, 923-1048).        *)
(*   SpecCounts  the read counters of ExtractMods::run                     *)
(*               (src/src/extract/subcommand.rs, 616-852, 968-1012).       *)
(*   SpecUpdate  Update::run (src/src/commands.rs, 732-792).               *)
(***************************************************************************)
EXTENDS Integers, Sequences, FiniteSets, TLC

VARIABLES
    counts,         \* FeatureVector.counts : [u32; 22]
    calls,          \* history: number of add_feature calls per <<strand, feature>>
    rows,           \* Vec<PileupFeatureCounts> returned by decode
    observed_mods,  \* decode's observed_mods argument
    pileup_options, \* decode's pileup_options argument
    pc,             \* "accumulate" | "decoded" | "panicked"
    \* process_region
    start_pos,               \* argument start_pos
    end_pos,                 \* argument end_pos
    threshold,               \* argument threshold, in hundredths
    pileup_numeric_options,  \* argument pileup_numeric_options
    plp_pos,                 \* first position the pileup stream may still yield
    pos,                     \* pileup.pos() of the column being processed
    feature_vector,          \* feature_vector.counts of the column
    observed_mod_codes,      \* observed_mod_codes of the column
    position_feature_counts, \* HashMap<u32, Vec<PileupFeatureCounts>>
    status,                  \* "idle" | "iter" | "column" | "Ok" | "Err" | "panicked"
    column_alignments,       \* history: bag of the alignments of the column so far
    pileup_columns,          \* history: position -> bag of the alignments of its column
    n_alignments,            \* history: alignments read from the stream
    stream_log               \* history of SpecWindow: [skipped, stop], what next() passed over and stopped on

fvVars == <<counts, calls, rows, observed_mods, pileup_options, pc>>

regionVars == <<start_pos, end_pos, threshold, pileup_numeric_options, plp_pos, pos, feature_vector, observed_mod_codes, position_feature_counts, status, column_alignments, pileup_columns, n_alignments, stream_log>>

\* -- state of the other components --
VARIABLES
    per_mod_thresholds,  \* MultipleThresholdModCaller: threshold per modification code
    per_base_thresholds,  \* MultipleThresholdModCaller: threshold per canonical base
    default_threshold,  \* MultipleThresholdModCaller: the global default
    canonical_base,  \* argument base of the last call
    base_mod_probs,  \* argument probs of the last call: code -> probability in hundredths
    winner,  \* history: <<entry, probability>> the last call selected
    base_mod_call,  \* BaseModCall returned by the last call
    caller_pc,  \* "idle" | "ready" | "called"
    include_bed,  \* ExtractMods.include_bed is Some
    warned,  \* from_bed_file: warned
    pos_positions,  \* from_bed_file: pos_positions, chrom_id -> Vec<Iv>
    neg_positions,  \* from_bed_file: neg_positions, chrom_id -> Vec<Iv>
    accepted,  \* history: the lines that passed every check, <<chrom_id, start, stop, strand field>>
    n_intervals,  \* history: BED lines read and motif hits found
    include_positions,  \* Option<StrandedPositionFilter>: [some, pos_positions, neg_positions]
    tid_to_positions,  \* load_regions: tid_to_positions of the searched contig
    query,  \* history: arguments of the last contains
    query_result,  \* result of the last contains
    filter_pc,  \* "idle" | "reading" | "panicked" | "bed" | "motif"
    sequence_length,  \* IntervalChunks: end of the sequence
    chunk_size,  \* IntervalChunks: chunk size
    start_offset,  \* history: the start the chunks were created with
    curr_position,  \* IntervalChunks: start of the next window
    windows,  \* history: the windows yielded so far, <<start, end>>
    chunks_pc,  \* "idle" | "iterating" | "done"
    reference_and_intervals,  \* per reference, the number of windows of its interval chunks
    channel_cap,  \* capacity of the bounded channel
    threads,  \* size of the thread pool
    reference_i,  \* index of the reference the producer is at
    interval_todo,  \* windows of the reference no worker has taken yet
    kept_windows,  \* history: <<reference, window>> pairs handed to the parallel iterator
    workers,  \* per thread: [st, item, blocked_at]
    chan,  \* messages in the channel, oldest first
    sent,  \* history: items whose send returned Ok
    n_sent,  \* history: number of sends that returned Ok
    received,  \* history: items the consumer loop received, in order
    tail_sends,  \* sends of the producer thread after the references
    producer_pc,  \* "idle" | "references" | "par_iter" | "unmapped" | "done"
    consumer_pc,  \* "idle" | "init" | "loop" | "failed" | "done"
    pileup_item,  \* the item's position_feature_counts: position -> labels of its rows
    iter_order,  \* the order HashMap::iter went through the positions
    iter_yield,  \* history: the positions iter_counts yielded, in order
    buf_rows,  \* rows written to buf_writer, <<position, label>>
    rows_written,  \* rows_written of write
    writer_pc,  \* "idle" | "building" | "Ok" | "Err"
    records,  \* the records mod_iter yields, by what becomes of each
    n_reads,  \* argument n_reads: << >> for None, <<n>> for Some(n)
    only_mapped,  \* argument only_mapped
    record_i,  \* number of records taken from mod_iter
    pb_position,  \* pb.position()
    sent_records,  \* history: the records whose message was sent with Ok, in order
    rcv_alive,  \* the Receiver has not been dropped
    records_pc,  \* "idle" | "loop" | "returned"
    sample_inner,  \* ReadIdsToBaseModProbs.inner: read id -> canonical base -> probabilities
    n_sampled,  \* number of records process_records has taken from the iterator
    percentiles,  \* SampledProbs.percentiles: canonical base -> <<lowest, highest>>
    sample_pc,  \* "idle" | "records" | "collected" | "Ok" | "Err"
    agg,  \* process_records: names of the profiles pushed, in order
    seen_records,  \* process_records: seen
    n_fails,  \* process_records: n_fails
    n_skips,  \* process_records: n_skips
    num_failed,  \* TrackingModRecordIter.num_failed
    num_skipped,  \* TrackingModRecordIter.num_skipped
    tokens_used,  \* history: number of calls of record_sampler.used
    outcomes,  \* history: what became of each record, and how the loop ended
    reads_profile,  \* the ReadsBaseModProfile returned, then merged
    profile_pc,  \* "idle" | "loop" | "returned" | "merged"
    in_flight,  \* the channel: results sent and not yet received
    n_messages,  \* number of results sent so far
    n_used,  \* ExtractMods::run: n_used
    n_failed,  \* ExtractMods::run: n_failed
    n_skipped,  \* ExtractMods::run: n_skipped
    reads_reached,  \* history: reads of the results received, as counted before the position filter
    reads_emptied,  \* history: reads of the results received that the position filter emptied
    total,  \* Update::run: total
    total_failed,  \* Update::run: total_failed
    total_skipped,  \* Update::run: total_skipped
    update_log,  \* history: what became of each record read, in order
    update_pc  \* "idle" | "loop" | "done"

callerVars == <<per_mod_thresholds, per_base_thresholds, default_threshold, canonical_base, base_mod_probs, winner, base_mod_call, caller_pc>>

filterVars == <<include_bed, warned, pos_positions, neg_positions, accepted, n_intervals, include_positions, tid_to_positions, query, query_result, filter_pc>>

chunksVars == <<sequence_length, chunk_size, start_offset, curr_position, windows, chunks_pc>>

pipeVars == <<reference_and_intervals, channel_cap, threads, reference_i, interval_todo, kept_windows, workers, chan, sent, n_sent, received, tail_sends, producer_pc, consumer_pc>>

writerVars == <<pileup_item, iter_order, iter_yield, buf_rows, rows_written, writer_pc>>

recordsVars == <<records, n_reads, only_mapped, record_i, pb_position, sent_records, rcv_alive, records_pc>>

sampleVars == <<sample_inner, n_sampled, percentiles, sample_pc>>

profileVars == <<agg, seen_records, n_fails, n_skips, num_failed, num_skipped, tokens_used, outcomes, reads_profile, profile_pc>>

countsVars == <<in_flight, n_messages, n_used, n_failed, n_skipped, reads_reached, reads_emptied>>

updateVars == <<total, total_failed, total_skipped, update_log, update_pc>>

laterVars == <<callerVars, filterVars, chunksVars, pipeVars, writerVars, recordsVars, sampleVars, profileVars, countsVars, updateVars>>

\* Everything outside the threshold caller.
callerFrame == <<fvVars, regionVars, filterVars, chunksVars, pipeVars, writerVars, recordsVars, sampleVars, profileVars, countsVars, updateVars>>

\* Everything outside the position filter.
filterFrame == <<fvVars, regionVars, callerVars, chunksVars, pipeVars, writerVars, recordsVars, sampleVars, profileVars, countsVars, updateVars>>

\* Everything outside the interval chunking.
chunksFrame == <<fvVars, regionVars, callerVars, filterVars, pipeVars, writerVars, recordsVars, sampleVars, profileVars, countsVars, updateVars>>

\* Everything outside the extract pipeline.
pipeFrame == <<fvVars, regionVars, callerVars, filterVars, chunksVars, writerVars, recordsVars, sampleVars, profileVars, countsVars, updateVars>>

\* Everything outside the bedMethyl writer.
writerFrame == <<fvVars, regionVars, callerVars, filterVars, chunksVars, pipeVars, recordsVars, sampleVars, profileVars, countsVars, updateVars>>

\* Everything outside the pass over the records.
recordsFrame == <<fvVars, regionVars, callerVars, filterVars, chunksVars, pipeVars, writerVars, sampleVars, profileVars, countsVars, updateVars>>

\* Everything outside the sampling of probabilities.
sampleFrame == <<fvVars, regionVars, callerVars, filterVars, chunksVars, pipeVars, writerVars, recordsVars, profileVars, countsVars, updateVars>>

\* Everything outside the collection of read profiles.
profileFrame == <<fvVars, regionVars, callerVars, filterVars, chunksVars, pipeVars, writerVars, recordsVars, sampleVars, countsVars, updateVars>>

\* Everything outside the read counters of extract.
countsFrame == <<fvVars, regionVars, callerVars, filterVars, chunksVars, pipeVars, writerVars, recordsVars, sampleVars, profileVars, updateVars>>

\* Everything outside the totals of update.
updateFrame == <<fvVars, regionVars, callerVars, filterVars, chunksVars, pipeVars, writerVars, recordsVars, sampleVars, profileVars, countsVars>>

\* the threshold caller is not in use.
CallerIdle ==
    /\ per_mod_thresholds = << >>
    /\ per_base_thresholds = << >>
    /\ default_threshold = 0
    /\ canonical_base = "-"
    /\ base_mod_probs = << >>
    /\ winner = <<"-", 0>>
    /\ base_mod_call = <<"None", 0, "-">>
    /\ caller_pc = "idle"

\* the position filter is not in use.
FilterIdle ==
    /\ include_bed = FALSE
    /\ warned = {}
    /\ pos_positions = << >>
    /\ neg_positions = << >>
    /\ accepted = {}
    /\ n_intervals = 0
    /\ include_positions = [some |-> FALSE, pos_positions |-> << >>, neg_positions |-> << >>]
    /\ tid_to_positions = << >>
    /\ query = <<0, 0, "-">>
    /\ query_result = FALSE
    /\ filter_pc = "idle"

\* the interval chunking is not in use.
ChunksIdle ==
    /\ sequence_length = 0
    /\ chunk_size = 1
    /\ start_offset = 0
    /\ curr_position = 0
    /\ windows = << >>
    /\ chunks_pc = "idle"

\* the extract pipeline is not in use.
PipeIdle ==
    /\ reference_and_intervals = << >>
    /\ channel_cap = 1
    /\ threads = 1
    /\ reference_i = 0
    /\ interval_todo = {}
    /\ kept_windows = {}
    /\ workers = << >>
    /\ chan = << >>
    /\ sent = {}
    /\ n_sent = 0
    /\ received = << >>
    /\ tail_sends = 0
    /\ producer_pc = "idle"
    /\ consumer_pc = "idle"

\* the bedMethyl writer is not in use.
WriterIdle ==
    /\ pileup_item = << >>
    /\ iter_order = << >>
    /\ iter_yield = << >>
    /\ buf_rows = << >>
    /\ rows_written = 0
    /\ writer_pc = "idle"

\* the pass over the records is not in use.
RecordsIdle ==
    /\ records = << >>
    /\ n_reads = << >>
    /\ only_mapped = FALSE
    /\ record_i = 0
    /\ pb_position = 0
    /\ sent_records = << >>
    /\ rcv_alive = FALSE
    /\ records_pc = "idle"

\* the sampling of probabilities is not in use.
SampleIdle ==
    /\ sample_inner = << >>
    /\ n_sampled = 0
    /\ percentiles = << >>
    /\ sample_pc = "idle"

\* the collection of read profiles is not in use.
ProfileIdle ==
    /\ agg = << >>
    /\ seen_records = {}
    /\ n_fails = 0
    /\ n_skips = 0
    /\ num_failed = 0
    /\ num_skipped = 0
    /\ tokens_used = 0
    /\ outcomes = << >>
    /\ reads_profile = [profiles |-> << >>, num_skips |-> 0, num_fails |-> 0]
    /\ profile_pc = "idle"

\* the read counters of extract is not in use.
CountsIdle ==
    /\ in_flight = << >>
    /\ n_messages = 0
    /\ n_used = 0
    /\ n_failed = 0
    /\ n_skipped = 0
    /\ reads_reached = 0
    /\ reads_emptied = 0

\* the totals of update is not in use.
UpdateIdle ==
    /\ total = 0
    /\ total_failed = 0
    /\ total_skipped = 0
    /\ update_log = << >>
    /\ update_pc = "idle"

LaterIdle == CallerIdle /\ FilterIdle /\ ChunksIdle /\ PipeIdle /\ WriterIdle /\ RecordsIdle /\ SampleIdle /\ ProfileIdle /\ CountsIdle /\ UpdateIdle

\* -- end of the state of the other components --

vars == <<fvVars, regionVars, laterVars>>

---------------------------------------------------------------------------
(* Bounds *)

\* u32::MAX scaled down: the largest value a slot can hold.
U32Max == 2

\* Number of add_feature calls made on one FeatureVector.
MaxCalls == 3

---------------------------------------------------------------------------
(* Types of mod_pileup.rs *)

Strand == {"Positive", "Negative"}

DnaBase == {"A", "C", "G", "T"}

\* The variants add_feature matches on (the match is exhaustive).
ModCode == {"A", "C", "a", "h", "m", "G", "T"}

Feature ==
    {<<"Delete", "-">>, <<"Filtered", "-">>}
        \cup ({"NoCall"} \X DnaBase)
        \cup ({"ModCall"} \X ModCode)

PileupNumericOptions == {"Passthrough", "Combine", "Collapse"}

Slots == 0..21

\* u32 arithmetic
saturating_add(x, y) == IF x + y > U32Max THEN U32Max ELSE x + y

\* `+` in a build without overflow checks
wrapping_add(x, y) == (x + y) % (U32Max + 1)

---------------------------------------------------------------------------
(* FeatureVector *)

new == [i \in Slots |-> 0]

\* The slot a call of add_feature increments; -1 for the two arms that do
\* nothing.
SlotOf(strand, feature) ==
    LET off == IF strand = "Positive" THEN 0 ELSE 11
    IN  CASE feature = <<"Delete", "-">>    -> off + 0
          [] feature = <<"Filtered", "-">>  -> off + 1
          [] feature = <<"NoCall", "A">>    -> off + 2
          [] feature = <<"NoCall", "C">>    -> off + 3
          [] feature = <<"NoCall", "G">>    -> off + 4
          [] feature = <<"NoCall", "T">>    -> off + 5
          [] feature = <<"ModCall", "A">>   -> off + 6
          [] feature = <<"ModCall", "C">>   -> off + 7
          [] feature = <<"ModCall", "a">>   -> off + 8
          [] feature = <<"ModCall", "h">>   -> off + 9
          [] feature = <<"ModCall", "m">>   -> off + 10
          [] feature = <<"ModCall", "G">>   -> -1
          [] feature = <<"ModCall", "T">>   -> -1

add_feature(c, strand, feature) ==
    LET k == SlotOf(strand, feature)
    IN  IF k = -1 THEN c
        ELSE [c EXCEPT ![k] = saturating_add(c[k], 1)]

\* n as f32 / d as f32, kept as the pair it is computed from
Fraction(n, d) == [num |-> n, den |-> d]

Row(strand, filtered_coverage, raw_mod_code, fraction_modified, n_canonical, n_modified, n_other_modified, n_delete, n_filtered, n_diff, n_nocall) ==
    [ strand            |-> strand,
      filtered_coverage |-> filtered_coverage,
      raw_mod_code      |-> raw_mod_code,
      fraction_modified |-> fraction_modified,
      n_canonical       |-> n_canonical,
      n_modified        |-> n_modified,
      n_other_modified  |-> n_other_modified,
      n_delete          |-> n_delete,
      n_filtered        |-> n_filtered,
      n_diff            |-> n_diff,
      n_nocall          |-> n_nocall ]

\* add_pileup_counts with the sibling count left out of the per-code rows.
add_pileup_counts_NoSibling(options, observed, strand, filtered_coverage, n_h, n_m, n_canonical, n_delete, n_filtered, n_diff, n_nocall) ==
    IF options \in {"Passthrough", "Collapse"}
    THEN (IF "h" \in observed
          THEN << Row(strand, filtered_coverage, "h",
                      Fraction(n_h, filtered_coverage), n_canonical, n_h, 0,
                      n_delete, n_filtered, n_diff, n_nocall) >>
          ELSE << >>)
         \o
         (IF "m" \in observed
          THEN << Row(strand, filtered_coverage, "m",
                      Fraction(n_m, filtered_coverage), n_canonical, n_m, 0,
                      n_delete, n_filtered, n_diff, n_nocall) >>
          ELSE << >>)
    ELSE LET n_modified == wrapping_add(n_h, n_m)
         IN  << Row(strand, filtered_coverage, "C",
                    Fraction(n_modified, filtered_coverage), n_canonical,
                    n_modified, 0, n_delete, n_filtered, n_diff, n_nocall) >>

add_pileup_counts(options, observed, strand, filtered_coverage, n_h, n_m, n_canonical, n_delete, n_filtered, n_diff, n_nocall) ==
    IF options \in {"Passthrough", "Collapse"}
    THEN (IF "h" \in observed
          THEN << Row(strand, filtered_coverage, "h",
                      Fraction(n_h, filtered_coverage), n_canonical, n_h, n_m,
                      n_delete, n_filtered, n_diff, n_nocall) >>
          ELSE << >>)
         \o
         (IF "m" \in observed
          THEN << Row(strand, filtered_coverage, "m",
                      Fraction(n_m, filtered_coverage), n_canonical, n_m, n_h,
                      n_delete, n_filtered, n_diff, n_nocall) >>
          ELSE << >>)
    ELSE LET n_modified == wrapping_add(n_h, n_m)
         IN  << Row(strand, filtered_coverage, "C",
                    Fraction(n_modified, filtered_coverage), n_canonical,
                    n_modified, 0, n_delete, n_filtered, n_diff, n_nocall) >>

\* + strand A-mods (lines 215-245)
DecodePosA(c, observed) ==
    IF wrapping_add(c[6], c[8]) > 0 /\ "a" \in observed
    THEN LET n_canonical == c[6]
             n_mod == c[8]
             n_diff ==
                 saturating_add(saturating_add(saturating_add(saturating_add(
                 saturating_add(c[3], c[4]), c[5]), c[7]), c[9]), c[19])
         IN  << Row("Positive", wrapping_add(n_canonical, n_mod), "a",
                    Fraction(n_mod, n_mod + n_canonical), n_canonical, n_mod,
                    0, c[0], c[1], n_diff, c[2]) >>
    ELSE << >>

\* + strand C-mods (lines 246-272)
DecodePosC(c, observed, options) ==
    IF wrapping_add(wrapping_add(c[7], c[9]), c[10]) > 0
    THEN LET n_canonical == c[7]
             n_diff ==
                 saturating_add(saturating_add(saturating_add(
                 saturating_add(c[2], c[4]), c[5]), c[6]), c[8])
             n_h == c[9]
             n_m == c[10]
             filtered_coverage ==
                 wrapping_add(wrapping_add(n_canonical, n_h), n_m)
         IN  add_pileup_counts(options, observed, "Positive",
                               filtered_coverage, n_h, n_m, n_canonical,
                               c[0], c[1], n_diff, c[3])
    ELSE << >>

\* - strand A-mods (lines 319-349)
DecodeNegA(c, observed) ==
    IF wrapping_add(c[17], c[19]) > 0 /\ "a" \in observed
    THEN LET n_canonical == c[17]
             n_mod == c[19]
             n_diff ==
                 saturating_add(saturating_add(saturating_add(saturating_add(
                 saturating_add(c[14], c[15]), c[16]), c[18]), c[20]), c[21])
         IN  << Row("Negative", wrapping_add(n_canonical, n_mod), "a",
                    Fraction(n_mod, n_mod + n_canonical), n_canonical, n_mod,
                    0, c[11], c[12], n_diff, c[13]) >>
    ELSE << >>

\* DecodeNegC without its coverage guard.
DecodeNegC_Unguarded(c, observed, options) ==
    LET n_canonical == c[18]
        n_h == c[20]
        n_m == c[21]
        filtered_coverage ==
            wrapping_add(wrapping_add(n_canonical, n_h), n_m)
        n_diff ==
            saturating_add(saturating_add(saturating_add(
            saturating_add(c[13], c[15]), c[16]), c[17]), c[19])
    IN  add_pileup_counts(options, observed, "Negative",
                          filtered_coverage, n_h, n_m, n_canonical,
                          c[11], c[12], n_diff, c[14])

\* - strand C-mods (lines 350-376)
DecodeNegC(c, observed, options) ==
    IF wrapping_add(wrapping_add(c[18], c[20]), c[21]) > 0
    THEN LET n_canonical == c[18]
             n_h == c[20]
             n_m == c[21]
             filtered_coverage ==
                 wrapping_add(wrapping_add(n_canonical, n_h), n_m)
             n_diff ==
                 saturating_add(saturating_add(saturating_add(
                 saturating_add(c[13], c[15]), c[16]), c[17]), c[19])
         IN  add_pileup_counts(options, observed, "Negative",
                               filtered_coverage, n_h, n_m, n_canonical,
                               c[11], c[12], n_diff, c[14])
    ELSE << >>

\* decode in a build where `+` wraps
decode(c, observed, options) ==
    DecodePosA(c, observed) \o DecodePosC(c, observed, options)
        \o DecodeNegA(c, observed) \o DecodeNegC(c, observed, options)

\* Some `+` of decode exceeds u32::MAX: a build with overflow checks panics
\* there.  The four guards are always evaluated and every other `+` adds a
\* subset of the operands of a guard.
DecodeOverflows(c) ==
    \/ c[6] + c[8] > U32Max
    \/ c[7] + c[9] + c[10] > U32Max
    \/ c[17] + c[19] > U32Max
    \/ c[18] + c[20] + c[21] > U32Max

---------------------------------------------------------------------------
(* SpecFV: add_feature calls on a fresh FeatureVector, then decode *)

NoCalls == [sf \in Strand \X Feature |-> 0]

RECURSIVE SumOver(_, _)
SumOver(f, S) ==
    IF S = {} THEN 0
    ELSE LET x == CHOOSE y \in S : TRUE
         IN  f[x] + SumOver(f, S \ {x})

NumCalls == SumOver(calls, Strand \X Feature)

\* The empty HashMap.
EmptyMap == [p \in {} |-> << >>]

\* next() has passed over no column and has not ended the iteration.
NoLog == [skipped |-> FALSE, stop |-> "-"]

\* process_region is not running.
RegionIdle ==
    /\ start_pos = 0
    /\ end_pos = 0
    /\ threshold = 0
    /\ pileup_numeric_options = "Passthrough"
    /\ plp_pos = 0
    /\ pos = 0
    /\ feature_vector = new
    /\ observed_mod_codes = {}
    /\ position_feature_counts = EmptyMap
    /\ status = "idle"
    /\ column_alignments = EmptyMap
    /\ pileup_columns = EmptyMap
    /\ n_alignments = 0
    /\ stream_log = NoLog

\* No FeatureVector is being filled on its own.
FVIdle ==
    /\ counts = new
    /\ calls = NoCalls
    /\ rows = << >>
    /\ observed_mods = {}
    /\ pileup_options = "Passthrough"
    /\ pc = "idle"

InitFV ==
    /\ RegionIdle
    /\ LaterIdle
    /\ counts = new
    /\ calls = NoCalls
    /\ rows = << >>
    /\ observed_mods = {}
    /\ pileup_options = "Passthrough"
    /\ pc = "accumulate"

AddFeature(strand, feature) ==
    /\ pc = "accumulate"
    /\ NumCalls < MaxCalls
    /\ counts' = add_feature(counts, strand, feature)
    /\ calls' = [calls EXCEPT ![<<strand, feature>>] = @ + 1]
    /\ UNCHANGED <<rows, observed_mods, pileup_options, pc>>
    /\ UNCHANGED <<regionVars, laterVars>>

Decode(observed, options, overflow_checks) ==
    /\ pc = "accumulate"
    /\ observed_mods' = observed
    /\ pileup_options' = options
    /\ IF overflow_checks /\ DecodeOverflows(counts)
       THEN /\ pc' = "panicked"
            /\ rows' = << >>
       ELSE /\ pc' = "decoded"
            /\ rows' = decode(counts, observed, options)
    /\ UNCHANGED <<counts, calls>>
    /\ UNCHANGED <<regionVars, laterVars>>

NextFV ==
    \/ \E strand \in Strand, feature \in Feature : AddFeature(strand, feature)
    \/ \E observed \in SUBSET {"a", "h", "m"},
          options \in PileupNumericOptions,
          overflow_checks \in BOOLEAN :
            Decode(observed, options, overflow_checks)

SpecFV == InitFV /\ [][NextFV]_vars

---------------------------------------------------------------------------
(* process_region (lines 480-588) *)

\* Pileup stream positions are 0..MaxPos.
MaxPos == 2

\* Alignments read from the pileup stream during one call.
MaxAlignments == 2

Positions == 0..MaxPos

\* threshold arguments, in hundredths like the probabilities
Thresholds == {50, 85}

\* DnaBase::complement
complement(base) ==
    CASE base = "A" -> "T" [] base = "T" -> "A"
      [] base = "C" -> "G" [] base = "G" -> "C"

\* DnaBase::parse(char).ok(): "None" for a character that is no base
parse(char) == IF char \in DnaBase THEN char ELSE "None"

\* record_is_secondary (util.rs)
record_is_secondary(record) ==
    record.is_supplementary \/ record.is_secondary \/ record.is_duplicate

\* ReadCache::get_mod_codes_for_record: the modification codes in the
\* record's tag.
get_mod_codes_for_record(record) == record.mod_codes

\* ReadCache::get_mod_call: "None" when the record has no probabilities for
\* this base at this position, else the best call, Filtered when its
\* probability is below the threshold.
get_mod_call(record, read_base_char, thr) ==
    IF record.probs.base # read_base_char THEN <<"None", 0, "-">>
    ELSE IF record.probs.call[2] < thr THEN <<"Filtered", 0, "-">>
    ELSE record.probs.call

\* The modification information of a record at the column: the codes of its
\* tag and, for one base, the best call of its probabilities.
ModInfo(codes, base, call) == [mod_codes |-> codes, probs |-> [base |-> base, call |-> call]]

NoTag == ModInfo({}, "-", <<"None", 0, "-">>)

\* An alignment of a pileup column and its record; qpos is -1 for None.
Alignment(is_refskip, flag, seq_len, is_reverse, is_del, qpos, seq, info) ==
    [ is_refskip       |-> is_refskip,
      is_supplementary |-> flag = "supplementary",
      is_secondary     |-> flag = "secondary",
      is_duplicate     |-> flag = "duplicate",
      seq_len          |-> seq_len,
      is_reverse       |-> is_reverse,
      is_del           |-> is_del,
      qpos             |-> qpos,
      seq              |-> seq,
      mod_codes        |-> info.mod_codes,
      probs            |-> info.probs ]

\* A primary alignment with a base at the column: a read whose base, in the
\* orientation of the read, is `base`; record.seq() holds the complement for
\* a reverse-strand read.
BaseAlignment(is_reverse, base, info) ==
    Alignment(FALSE, "primary", 1, is_reverse, FALSE, 0, IF is_reverse /\ base \in DnaBase THEN complement(base) ELSE base, info)

\* The reads the columns are drawn from.
ReadBasesAndInfos ==
    { <<"C", ModInfo({"m"}, "C", <<"Canonical", 95, "-">>)>>,
      <<"C", ModInfo({"m"}, "C", <<"Modified", 80, "m">>)>>,
      <<"C", ModInfo({"m"}, "C", <<"Modified", 90, "m">>)>>,
      <<"C", ModInfo({"h", "m"}, "C", <<"Modified", 90, "h">>)>>,
      <<"C", NoTag>>,
      <<"A", ModInfo({"a"}, "A", <<"Modified", 90, "a">>)>>,
      <<"A", ModInfo({"a"}, "A", <<"Canonical", 95, "-">>)>>,
      <<"A", ModInfo({"m"}, "C", <<"Modified", 90, "m">>)>>,
      <<"G", ModInfo({"m"}, "C", <<"Modified", 90, "m">>)>>,
      <<"T", NoTag>>,
      <<"N", ModInfo({"m"}, "C", <<"Modified", 90, "m">>)>> }

PileupAlignments ==
    LET m90 == ModInfo({"m"}, "C", <<"Modified", 90, "m">>)
    IN  { BaseAlignment(r, bi[1], bi[2]) : r \in BOOLEAN, bi \in ReadBasesAndInfos }
        \cup { Alignment(TRUE, "primary", 1, FALSE, FALSE, -1, "C", m90),
               Alignment(FALSE, "secondary", 1, FALSE, FALSE, 0, "C", m90),
               Alignment(FALSE, "supplementary", 1, FALSE, FALSE, 0, "C", m90),
               Alignment(FALSE, "duplicate", 1, FALSE, FALSE, 0, "C", m90),
               Alignment(FALSE, "primary", 0, FALSE, FALSE, 0, "C", m90),
               Alignment(FALSE, "primary", 1, FALSE, FALSE, 1, "C", m90),
               Alignment(FALSE, "primary", 1, FALSE, TRUE, -1, "C", m90),
               Alignment(FALSE, "primary", 1, TRUE, TRUE, -1, "C", NoTag) }

\* The filter without the test of the length of the sequence.
Contributes_AnyLength(alignment) ==
    /\ ~ alignment.is_refskip
    /\ ~ record_is_secondary(alignment)

\* The filter_map of lines 510-521.
Contributes(alignment) ==
    /\ ~ alignment.is_refskip
    /\ ~ record_is_secondary(alignment)
    /\ alignment.seq_len # 0

\* Lines 527-531.
StrandOfRecord(record) == IF record.is_reverse THEN "Negative" ELSE "Positive"

\* ReadBase without the complement of a reverse-strand read's base.
ReadBase_NoComplement(alignment) ==
    IF alignment.qpos = -1 THEN "None"
    ELSE IF alignment.qpos >= alignment.seq_len THEN "None"
    ELSE parse(alignment.seq)

\* Lines 539-556: the base of the read at the column, "None" when the loop
\* continues without one.
ReadBase(alignment) ==
    LET read_base ==
            IF alignment.qpos = -1 THEN "None"
            ELSE IF alignment.qpos >= alignment.seq_len THEN "None"
            ELSE parse(alignment.seq)
    IN  IF read_base = "None" THEN "None"
        ELSE IF alignment.is_reverse THEN complement(read_base)
        ELSE read_base

\* FeatureOfCall with a missing call treated as a filtered one.
FeatureOfCall_NoCallFiltered(mod_call, read_base) ==
    CASE mod_call[1] = "Canonical" -> <<"ModCall", read_base>>
      [] mod_call[1] = "Filtered"  -> <<"Filtered", "-">>
      [] mod_call[1] = "Modified"  -> <<"ModCall", mod_call[3]>>
      [] mod_call[1] = "None"      -> <<"Filtered", "-">>

\* FeatureOfCall with a filtered call treated as no call at all.
FeatureOfCall_FilteredDropped(mod_call, read_base) ==
    CASE mod_call[1] = "Canonical" -> <<"ModCall", read_base>>
      [] mod_call[1] = "Filtered"  -> <<"NoCall", read_base>>
      [] mod_call[1] = "Modified"  -> <<"ModCall", mod_call[3]>>
      [] mod_call[1] = "None"      -> <<"NoCall", read_base>>

\* Lines 558-575.
FeatureOfCall(mod_call, read_base) ==
    CASE mod_call[1] = "Canonical" -> <<"ModCall", read_base>>
      [] mod_call[1] = "Filtered"  -> <<"Filtered", "-">>
      [] mod_call[1] = "Modified"  -> <<"ModCall", mod_call[3]>>
      [] mod_call[1] = "None"      -> <<"NoCall", read_base>>

\* The body of the alignment loop (lines 522-577) on the feature vector.
AlignmentFeatures(fv, alignment, thr) ==
    IF alignment.is_del
    THEN add_feature(fv, StrandOfRecord(alignment), <<"Delete", "-">>)
    ELSE IF ReadBase(alignment) = "None" THEN fv
    ELSE add_feature(fv, StrandOfRecord(alignment), FeatureOfCall(get_mod_call(alignment, ReadBase(alignment), thr), ReadBase(alignment)))

\* PileupIter::next without the test against start_pos: the first column
\* before end_pos is returned.
PileupIter_next_NoSkip(columns, err) ==
    IF columns = {} THEN -1
    ELSE LET p == CHOOSE q \in columns : \A r \in columns : q <= r
         IN  IF err # -1 /\ err <= p THEN -1
             ELSE IF p >= end_pos THEN -1
             ELSE p

\* PileupIter::next (lines 424-444) over the columns the stream yields next:
\* Ok columns at the positions of `columns` and an error at `err` (-1 for
\* none), in position order.  The position of the column returned, or -1
\* for None.
RECURSIVE PileupIter_next(_, _)
PileupIter_next(columns, err) ==
    IF columns = {} THEN -1
    ELSE LET p == CHOOSE q \in columns : \A r \in columns : q <= r
         IN  IF err # -1 /\ err <= p THEN -1
             ELSE IF p >= end_pos THEN -1
             ELSE IF p < start_pos THEN PileupIter_next(columns \ {p}, err)
             ELSE p

\* next() reaches the error of the stream: no column at or past end_pos comes
\* before it, and no column of the window either.
ErrorMet(columns, err) ==
    /\ err # -1
    /\ \A q \in columns : q < err => q < start_pos

\* next() passes over a column before start_pos.
SkippedMet(columns, err) ==
    \E q \in columns : q < start_pos /\ (err = -1 \/ q < err)

\* next() stops on a column at or past end_pos: no column of the window and
\* no error comes before it.
OffEndMet(columns, err) ==
    \E q \in columns :
        /\ q >= end_pos
        /\ err = -1 \/ q < err
        /\ \A r \in columns : r < q => r < start_pos

\* ModBasePileup::num_results
num_results(pileup) == Cardinality(DOMAIN pileup)

Insert(map, key, value) ==
    [k \in DOMAIN map \cup {key} |-> IF k = key THEN value ELSE map[k]]

\* Copies of x in a bag (a map from its elements to their counts).
CountIn(bag, x) == IF x \in DOMAIN bag THEN bag[x] ELSE 0

InitRegion ==
    /\ FVIdle
    /\ LaterIdle
    /\ start_pos = 1
    /\ end_pos = MaxPos
    /\ threshold \in Thresholds
    /\ pileup_numeric_options \in PileupNumericOptions
    /\ plp_pos = 0
    /\ pos = 0
    /\ feature_vector = new
    /\ observed_mod_codes = {}
    /\ position_feature_counts = EmptyMap
    /\ status = "iter"
    /\ column_alignments = EmptyMap
    /\ pileup_columns = EmptyMap
    /\ n_alignments = 0
    /\ stream_log = NoLog

\* from_path or fetch fails (lines 488-499).
OpenError ==
    /\ status = "iter"
    /\ plp_pos = 0
    /\ position_feature_counts = EmptyMap
    /\ status' = "Err"
    /\ UNCHANGED <<start_pos, end_pos, threshold, pileup_numeric_options, plp_pos, pos, feature_vector, observed_mod_codes, position_feature_counts, column_alignments, pileup_columns, n_alignments, stream_log>>
    /\ UNCHANGED <<fvVars, laterVars>>

\* The head of the position loop (lines 505-508): the next column of the
\* window, or the end of the loop and the return of line 584.
NextColumn(columns, err) ==
    /\ status = "iter"
    /\ LET p == PileupIter_next(columns \cup (IF err = -1 THEN {} ELSE {err}), err)
       IN  IF p = -1
           THEN /\ status' = "Ok"
                /\ UNCHANGED <<plp_pos, pos, feature_vector, observed_mod_codes>>
           ELSE /\ n_alignments < MaxAlignments
                /\ status' = "column"
                /\ plp_pos' = p + 1
                /\ pos' = p
                /\ feature_vector' = new
                /\ observed_mod_codes' = {}
    /\ column_alignments' = EmptyMap
    /\ UNCHANGED <<start_pos, end_pos, threshold, pileup_numeric_options, position_feature_counts, pileup_columns, n_alignments, stream_log>>
    /\ UNCHANGED <<fvVars, laterVars>>

\* One alignment of the column: the filter of lines 510-521 and the loop
\* body of lines 522-577.
AddAlignment(alignment) ==
    /\ status = "column"
    /\ n_alignments < MaxAlignments
    /\ n_alignments' = n_alignments + 1
    /\ column_alignments' = Insert(column_alignments, alignment, CountIn(column_alignments, alignment) + 1)
    /\ IF Contributes(alignment)
       THEN /\ observed_mod_codes' = observed_mod_codes \cup get_mod_codes_for_record(alignment)
            /\ feature_vector' = AlignmentFeatures(feature_vector, alignment, threshold)
       ELSE UNCHANGED <<observed_mod_codes, feature_vector>>
    /\ UNCHANGED <<start_pos, end_pos, threshold, pileup_numeric_options, plp_pos, pos, position_feature_counts, status, pileup_columns, stream_log>>
    /\ UNCHANGED <<fvVars, laterVars>>

\* The end of the alignment loop (lines 578-581): decode and insert.  A
\* pileup column holds at least one alignment.
EndColumn(overflow_checks) ==
    /\ status = "column"
    /\ column_alignments # EmptyMap
    /\ IF overflow_checks /\ DecodeOverflows(feature_vector)
       THEN /\ status' = "panicked"
            /\ UNCHANGED <<position_feature_counts, pileup_columns>>
       ELSE /\ status' = "iter"
            /\ position_feature_counts' = Insert(position_feature_counts, pos, decode(feature_vector, observed_mod_codes, pileup_numeric_options))
            /\ pileup_columns' = Insert(pileup_columns, pos, column_alignments)
    /\ UNCHANGED <<start_pos, end_pos, threshold, pileup_numeric_options, plp_pos, pos, feature_vector, observed_mod_codes, column_alignments, n_alignments, stream_log>>
    /\ UNCHANGED <<fvVars, laterVars>>

NextRegion ==
    \/ OpenError
    \/ \E columns \in SUBSET {p \in Positions : p >= plp_pos}, err \in {-1} \cup {p \in Positions : p >= plp_pos} : NextColumn(columns, err)
    \/ \E alignment \in PileupAlignments : AddAlignment(alignment)
    \/ \E overflow_checks \in BOOLEAN : EndColumn(overflow_checks)

SpecRegion == InitRegion /\ [][NextRegion]_vars

---------------------------------------------------------------------------
(* The position loop of process_region (lines 501-509, 578-587) over any   *)
(* window, the work on a column reduced to its insert                      *)

\* What made next() return None: the error of the stream, a column at or
\* past end_pos, or the end of the stream.
StopOf(columns, err) ==
    IF ErrorMet(columns, err)
    THEN (IF start_pos <= err /\ err < end_pos THEN "error in window" ELSE "error")
    ELSE IF OffEndMet(columns, err) THEN "off end"
    ELSE "end"

InitWindow ==
    /\ FVIdle
    /\ LaterIdle
    /\ start_pos \in Positions
    /\ end_pos \in start_pos..(MaxPos + 1)
    /\ threshold = 0
    /\ pileup_numeric_options = "Passthrough"
    /\ plp_pos = 0
    /\ pos = 0
    /\ feature_vector = new
    /\ observed_mod_codes = {}
    /\ position_feature_counts = EmptyMap
    /\ status = "iter"
    /\ column_alignments = EmptyMap
    /\ pileup_columns = EmptyMap
    /\ n_alignments = 0
    /\ stream_log = NoLog

\* One turn of `for pileup in pileup_iter`: next() and the insert of the
\* column's position, or the end of the loop and the return of Ok.
WindowColumn(columns, err) ==
    /\ status = "iter"
    /\ LET p == PileupIter_next(columns \cup (IF err = -1 THEN {} ELSE {err}), err)
       IN  IF p = -1
           THEN /\ status' = "Ok"
                /\ stream_log' = [skipped |-> stream_log.skipped \/ SkippedMet(columns, err), stop |-> StopOf(columns, err)]
                /\ UNCHANGED <<plp_pos, pos, position_feature_counts>>
           ELSE /\ plp_pos' = p + 1
                /\ pos' = p
                /\ position_feature_counts' = Insert(position_feature_counts, p, << >>)
                /\ stream_log' = [stream_log EXCEPT !.skipped = @ \/ SkippedMet(columns, err)]
                /\ UNCHANGED status
    /\ UNCHANGED <<start_pos, end_pos, threshold, pileup_numeric_options, feature_vector, observed_mod_codes, column_alignments, pileup_columns, n_alignments>>
    /\ UNCHANGED <<fvVars, laterVars>>

NextWindow ==
    \/ OpenError
    \/ \E columns \in SUBSET {p \in Positions : p >= plp_pos}, err \in {-1} \cup {p \in Positions : p >= plp_pos} : WindowColumn(columns, err)

SpecWindow == InitWindow /\ [][NextWindow]_vars

---------------------------------------------------------------------------
\* -- frames of the other components --
\* Only the threshold caller is in use.
CallerOnly == FVIdle /\ RegionIdle /\ FilterIdle /\ ChunksIdle /\ PipeIdle /\ WriterIdle /\ RecordsIdle /\ SampleIdle /\ ProfileIdle /\ CountsIdle /\ UpdateIdle

\* Only the position filter is in use.
FilterOnly == FVIdle /\ RegionIdle /\ CallerIdle /\ ChunksIdle /\ PipeIdle /\ WriterIdle /\ RecordsIdle /\ SampleIdle /\ ProfileIdle /\ CountsIdle /\ UpdateIdle

\* Only the interval chunking is in use.
ChunksOnly == FVIdle /\ RegionIdle /\ CallerIdle /\ FilterIdle /\ PipeIdle /\ WriterIdle /\ RecordsIdle /\ SampleIdle /\ ProfileIdle /\ CountsIdle /\ UpdateIdle

\* Only the extract pipeline is in use.
PipeOnly == FVIdle /\ RegionIdle /\ CallerIdle /\ FilterIdle /\ ChunksIdle /\ WriterIdle /\ RecordsIdle /\ SampleIdle /\ ProfileIdle /\ CountsIdle /\ UpdateIdle

\* Only the bedMethyl writer is in use.
WriterOnly == FVIdle /\ RegionIdle /\ CallerIdle /\ FilterIdle /\ ChunksIdle /\ PipeIdle /\ RecordsIdle /\ SampleIdle /\ ProfileIdle /\ CountsIdle /\ UpdateIdle

\* Only the pass over the records is in use.
RecordsOnly == FVIdle /\ RegionIdle /\ CallerIdle /\ FilterIdle /\ ChunksIdle /\ PipeIdle /\ WriterIdle /\ SampleIdle /\ ProfileIdle /\ CountsIdle /\ UpdateIdle

\* Only the sampling of probabilities is in use.
SampleOnly == FVIdle /\ RegionIdle /\ CallerIdle /\ FilterIdle /\ ChunksIdle /\ PipeIdle /\ WriterIdle /\ RecordsIdle /\ ProfileIdle /\ CountsIdle /\ UpdateIdle

\* Only the collection of read profiles is in use.
ProfileOnly == FVIdle /\ RegionIdle /\ CallerIdle /\ FilterIdle /\ ChunksIdle /\ PipeIdle /\ WriterIdle /\ RecordsIdle /\ SampleIdle /\ CountsIdle /\ UpdateIdle

\* Only the read counters of extract is in use.
CountsOnly == FVIdle /\ RegionIdle /\ CallerIdle /\ FilterIdle /\ ChunksIdle /\ PipeIdle /\ WriterIdle /\ RecordsIdle /\ SampleIdle /\ ProfileIdle /\ UpdateIdle

\* Only the totals of update is in use.
UpdateOnly == FVIdle /\ RegionIdle /\ CallerIdle /\ FilterIdle /\ ChunksIdle /\ PipeIdle /\ WriterIdle /\ RecordsIdle /\ SampleIdle /\ ProfileIdle /\ CountsIdle

\* -- end of the frames --

---------------------------------------------------------------------------
(* The threshold caller (spec sections 4.1 and 4.2), as constructed by       *)
(* CallMods::run (commands.rs 943-981)                                       *)

\* Modification codes of a canonical base.
ModCodesOf(base) ==
    CASE base = "A" -> {"a"} [] base = "C" -> {"h", "m"} [] OTHER -> {}

\* Partial maps from the keys to the values.
PartialMaps(keys, values) == UNION {[d -> values] : d \in SUBSET keys}

\* --mod-threshold values (hundredths), None being the empty map.
PerModThresholds == PartialMaps({"a", "h", "m"}, {60, 95})

\* --filter-threshold per-base values, or the estimated ones.
PerBaseThresholds == PartialMaps({"A", "C"}, {65, 85})

DefaultThresholds == {0, 75}

\* BaseModProbs of the reads: the probability of each code of the tag; the
\* canonical probability is what remains.
BaseModProbs(base) ==
    CASE base = "C" -> { << >>,
                         [h |-> 70, m |-> 10], [h |-> 10, m |-> 80],
                         [h |-> 5, m |-> 90], [h |-> 2, m |-> 97],
                         [h |-> 5, m |-> 5], [h |-> 20, m |-> 10],
                         [h |-> 50, m |-> 50], [m |-> 50], [m |-> 90] }
      [] base = "A" -> { << >>, [a |-> 90], [a |-> 96], [a |-> 60],
                         [a |-> 30], [a |-> 10] }
      [] OTHER      -> { << >> }

RECURSIVE SumProbs(_, _)
SumProbs(probs, codes) ==
    IF codes = {} THEN 0
    ELSE LET c == CHOOSE x \in codes : TRUE
         IN  probs[c] + SumProbs(probs, codes \ {c})

\* The implicit canonical probability.
canonical_prob(probs) == 100 - SumProbs(probs, DOMAIN probs)

\* The entries of the argmax: the codes and the canonical non-entry, each
\* with its probability.
Entries(probs) ==
    {<<c, probs[c]>> : c \in DOMAIN probs} \cup {<<"canonical", canonical_prob(probs)>>}

\* The entries of maximum probability; which of several the tie-break
\* selects is left open.
ArgMax(probs) ==
    {e \in Entries(probs) : \A f \in Entries(probs) : f[2] <= e[2]}

\* resolve_threshold with the per-base value taken before the per-code one.
resolve_threshold_BaseFirst(base, code) ==
    IF base \in DOMAIN per_base_thresholds THEN per_base_thresholds[base]
    ELSE IF code \in DOMAIN per_mod_thresholds THEN per_mod_thresholds[code]
    ELSE default_threshold

\* resolve_threshold(base, code), code being "canonical" for None.
resolve_threshold(base, code) ==
    IF code \in DOMAIN per_mod_thresholds THEN per_mod_thresholds[code]
    ELSE IF base \in DOMAIN per_base_thresholds THEN per_base_thresholds[base]
    ELSE default_threshold

\* call(base, probs) for the entry the argmax selected.
call(base, probs, entry) ==
    IF DOMAIN probs = {} THEN <<"Canonical", 100, "-">>
    ELSE IF entry[2] < resolve_threshold(base, entry[1]) THEN <<"Filtered", 0, "-">>
    ELSE IF entry[1] = "canonical" THEN <<"Canonical", entry[2], "-">>
    ELSE <<"Modified", entry[2], entry[1]>>

InitCaller ==
    /\ CallerOnly
    /\ per_mod_thresholds \in PerModThresholds
    /\ per_base_thresholds \in PerBaseThresholds
    /\ default_threshold \in DefaultThresholds
    /\ canonical_base = "-"
    /\ base_mod_probs = << >>
    /\ winner = <<"-", 0>>
    /\ base_mod_call = <<"None", 0, "-">>
    /\ caller_pc = "ready"

\* One call of the caller.
Call(base, probs, entry) ==
    /\ caller_pc \in {"ready", "called"}
    /\ entry \in ArgMax(probs)
    /\ canonical_base' = base
    /\ base_mod_probs' = probs
    /\ winner' = entry
    /\ base_mod_call' = call(base, probs, entry)
    /\ caller_pc' = "called"
    /\ UNCHANGED <<per_mod_thresholds, per_base_thresholds, default_threshold>>
    /\ UNCHANGED callerFrame

NextCaller ==
    \E base \in DnaBase : \E probs \in BaseModProbs(base) : \E entry \in Entries(probs) : Call(base, probs, entry)

SpecCaller == InitCaller /\ [][NextCaller]_vars

---------------------------------------------------------------------------
(* StrandedPositionFilter (position_filter.rs) and the filters of            *)
(* ExtractMods::load_regions (extract/subcommand.rs 290-407)                 *)

\* BED lines read plus motif hits found in one run.
MaxIntervals == 2

\* Coordinates of BED lines and queries.
Coords == 0..3

\* chrom_to_target_id / name_to_tid: the references of the BAM header.
chrom_to_target_id == [chr0 |-> 0, chr1 |-> 1]

\* The modulus of `chrom_id as u32` (line 134), scaled down; target ids are
\* below half of it, as an i32 target id is.
TidModulus == 8

as_u32(chrom_id) == chrom_id % TidModulus

\* A line split at whitespace: the number of parts and the parts read;
\* start and end are -1 when they do not parse as u64.
Line(n_parts, chrom_name, raw_start, raw_end, strand) ==
    [n_parts |-> n_parts, chrom_name |-> chrom_name, raw_start |-> raw_start, raw_end |-> raw_end, strand |-> strand]

\* Lines every check accepts: overlapping, nested, adjacent, disjoint,
\* duplicated, empty and inverted intervals.
WellFormedLines ==
    { Line(6, "chr0", iv[1], iv[2], st) :
          iv \in {<<0, 2>>, <<1, 3>>, <<2, 3>>, <<0, 1>>, <<2, 1>>}, st \in {"+", "-", "."} }
        \cup { Line(6, "chr1", 1, 3, "+") }

BedLines ==
    WellFormedLines
        \cup { Line(0, "", -1, -1, ""),
               Line(3, "chr0", 0, 2, ""),
               Line(6, "chr0", -1, 2, "+"),
               Line(6, "chr0", 0, -1, "+"),
               Line(6, "chr0", 0, 2, "*"),
               Line(6, "chrU", 0, 2, "+"),
               Line(3, "chrU", 0, 2, "") }

Iv(start, stop) == [start |-> start, stop |-> stop]

\* entry(key).or_insert(Vec::new()).push(iv)
PushEntry(map, key, iv) ==
    Insert(map, key, Append(IF key \in DOMAIN map THEN map[key] ELSE << >>, iv))

\* Interval order of rust_lapper: by start, then by stop.
IvLess(a, b) == a.start < b.start \/ (a.start = b.start /\ a.stop < b.stop)

\* The intervals sorted, as Lapper::new keeps them.
RECURSIVE SortIvs(_)
SortIvs(ivs) ==
    IF ivs = << >> THEN << >>
    ELSE LET rest == SortIvs(Tail(ivs))
             x == Head(ivs)
             lower == SelectSeq(rest, LAMBDA y : IvLess(y, x))
             upper == SelectSeq(rest, LAMBDA y : ~ IvLess(y, x))
         IN  lower \o <<x>> \o upper

\* Lapper::new
Lapper_new(intervals) == SortIvs(intervals)

\* Lapper::merge_overlaps: the stack after the intervals from index i on.
RECURSIVE MergeFrom(_, _, _)
MergeFrom(ivs, i, stack) ==
    IF i > Len(ivs) THEN stack
    ELSE LET top == stack[Len(stack)]
             interval == ivs[i]
             below == SubSeq(stack, 1, Len(stack) - 1)
         IN  IF top.stop < interval.start
             THEN MergeFrom(ivs, i + 1, Append(stack, interval))
             ELSE IF top.stop < interval.stop
             THEN MergeFrom(ivs, i + 1, Append(below, Iv(top.start, interval.stop)))
             ELSE MergeFrom(ivs, i + 1, stack)

merge_overlaps(lp) ==
    IF lp = << >> THEN lp ELSE MergeFrom(lp, 2, <<lp[1]>>)

\* Lapper::find(start, stop).count()
find_count(lp, start, stop) ==
    Cardinality({i \in DOMAIN lp : lp[i].start < stop /\ lp[i].stop > start})

\* Lines 95-111: a merged lapper per chrom_id.
MergedLappers(positions) ==
    [chrom_id \in DOMAIN positions |-> merge_overlaps(Lapper_new(positions[chrom_id]))]

\* contains with the '.' of the strand argument ignored: both maps searched.
contains_AnyStrand(filter, chrom_id, position, strand) ==
    \E positions \in {filter.pos_positions, filter.neg_positions} :
        /\ as_u32(chrom_id) \in DOMAIN positions
        /\ find_count(positions[as_u32(chrom_id)], position, position + 1) > 0

\* StrandedPositionFilter::contains (lines 121-137)
contains(filter, chrom_id, position, strand) ==
    LET positions == IF strand = "Positive" THEN filter.pos_positions ELSE filter.neg_positions
    IN  /\ as_u32(chrom_id) \in DOMAIN positions
        /\ find_count(positions[as_u32(chrom_id)], position, position + 1) > 0

NoFilter == [some |-> FALSE, pos_positions |-> << >>, neg_positions |-> << >>]

InitFilter ==
    /\ FilterOnly
    /\ include_bed \in BOOLEAN
    /\ warned = {}
    /\ pos_positions = << >>
    /\ neg_positions = << >>
    /\ accepted = {}
    /\ n_intervals = 0
    /\ include_positions = NoFilter
    /\ tid_to_positions = << >>
    /\ query = <<0, 0, "-">>
    /\ query_result = FALSE
    /\ filter_pc = IF include_bed THEN "reading" ELSE "loaded"

\* One line of the BED file (lines 40-93).
ReadLine(line) ==
    /\ filter_pc = "reading"
    /\ n_intervals < MaxIntervals
    /\ n_intervals' = n_intervals + 1
    /\ IF line.n_parts = 0
       THEN \* parts[0] of an empty line: index out of bounds
            /\ filter_pc' = "panicked"
            /\ UNCHANGED <<warned, pos_positions, neg_positions, accepted>>
       ELSE /\ filter_pc' = "reading"
            /\ IF \/ line.chrom_name \in warned
                  \/ line.n_parts < 6
                  \/ line.raw_start = -1
                  \/ line.raw_end = -1
                  \/ line.strand \notin {"+", "-", "."}
               THEN UNCHANGED <<warned, pos_positions, neg_positions, accepted>>
               ELSE IF line.chrom_name \in DOMAIN chrom_to_target_id
               THEN LET chrom_id == chrom_to_target_id[line.chrom_name]
                        iv == Iv(line.raw_start, line.raw_end)
                    IN  /\ pos_positions' = IF line.strand \in {"+", "."} THEN PushEntry(pos_positions, chrom_id, iv) ELSE pos_positions
                        /\ neg_positions' = IF line.strand \in {"-", "."} THEN PushEntry(neg_positions, chrom_id, iv) ELSE neg_positions
                        /\ accepted' = accepted \cup {<<chrom_id, line.raw_start, line.raw_end, line.strand>>}
                        /\ UNCHANGED warned
               ELSE /\ warned' = warned \cup {line.chrom_name}
                    /\ UNCHANGED <<pos_positions, neg_positions, accepted>>
    /\ UNCHANGED <<include_bed, include_positions, tid_to_positions, query, query_result>>
    /\ UNCHANGED filterFrame

\* The end of the file: the lappers are built and merged (lines 95-118).
EndOfFile ==
    /\ filter_pc = "reading"
    /\ filter_pc' = "loaded"
    /\ include_positions' = [some |-> TRUE, pos_positions |-> MergedLappers(pos_positions), neg_positions |-> MergedLappers(neg_positions)]
    /\ UNCHANGED <<include_bed, warned, pos_positions, neg_positions, accepted, n_intervals, tid_to_positions, query, query_result>>
    /\ UNCHANGED filterFrame

\* load_regions without motifs: include_positions stays (line 405).
NoMotifs ==
    /\ filter_pc = "loaded"
    /\ filter_pc' = "bed"
    /\ UNCHANGED <<include_bed, warned, pos_positions, neg_positions, accepted, n_intervals, include_positions, tid_to_positions, query, query_result>>
    /\ UNCHANGED filterFrame

\* One hit of find_motif_hits on the contig of tid 0, kept when there is no
\* include filter or the filter contains it (subcommand.rs 339-358).
FindMotifHit(position, strand) ==
    /\ filter_pc \in {"loaded", "searching"}
    /\ n_intervals < MaxIntervals
    /\ n_intervals' = n_intervals + 1
    /\ filter_pc' = "searching"
    /\ LET keep == include_positions.some => contains(include_positions, 0, position, strand)
           positions == IF 0 \in DOMAIN tid_to_positions THEN tid_to_positions[0] ELSE << >>
       IN  /\ tid_to_positions' = Insert(tid_to_positions, 0, IF keep THEN Append(positions, <<position, strand>>) ELSE positions)
           /\ IF include_positions.some
              THEN /\ query' = <<0, position, strand>>
                   /\ query_result' = contains(include_positions, 0, position, strand)
              ELSE UNCHANGED <<query, query_result>>
    /\ UNCHANGED <<include_bed, warned, pos_positions, neg_positions, accepted, include_positions>>
    /\ UNCHANGED filterFrame

\* The unit intervals of the hits of one strand, as a lapper (lines 365-385).
to_lapper(positions, strand) ==
    LET kept == SelectSeq(positions, LAMBDA h : h[2] = strand)
    IN  Lapper_new([i \in DOMAIN kept |-> Iv(kept[i][1], kept[i][1] + 1)])

\* The fold of lines 362-397 and the filter of lines 399-402.
FoldLappers ==
    /\ filter_pc \in {"loaded", "searching"}
    /\ filter_pc' = "motif"
    /\ include_positions' =
          [ some |-> TRUE,
            pos_positions |-> [tid \in DOMAIN tid_to_positions |-> to_lapper(tid_to_positions[tid], "Positive")],
            neg_positions |-> [tid \in DOMAIN tid_to_positions |-> to_lapper(tid_to_positions[tid], "Negative")] ]
    /\ UNCHANGED <<include_bed, warned, pos_positions, neg_positions, accepted, n_intervals, tid_to_positions, query, query_result>>
    /\ UNCHANGED filterFrame

\* A query of the finished filter.
Contains(chrom_id, position, strand) ==
    /\ filter_pc \in {"bed", "motif"}
    /\ include_positions.some
    /\ query' = <<chrom_id, position, strand>>
    /\ query_result' = contains(include_positions, chrom_id, position, strand)
    /\ UNCHANGED <<include_bed, warned, pos_positions, neg_positions, accepted, n_intervals, include_positions, tid_to_positions, filter_pc>>
    /\ UNCHANGED filterFrame

NextFilter ==
    \/ \E line \in BedLines : ReadLine(line)
    \/ EndOfFile
    \/ NoMotifs
    \/ \E position \in {1, 2}, strand \in Strand : FindMotifHit(position, strand)
    \/ FoldLappers
    \/ \E chrom_id \in -1..1, position \in Coords, strand \in Strand : Contains(chrom_id, position, strand)

SpecFilter == InitFilter /\ [][NextFilter]_vars

---------------------------------------------------------------------------
(* IntervalChunks (spec section 4.7), as created by load_regions             *)
(* (extract/subcommand.rs 415-429) and iterated by run (650-684)             *)

\* Longest sequence.
MaxLen == 6

\* Largest chunk size (interval_size).
MaxChunk == 3

\* End of the window starting at the position, running past the end of the
\* sequence.
window_end_Unclipped(position, size, length) == position + size

\* End of the window starting at the position: at most `size` wide and never
\* past the end of the sequence.
window_end(position, size, length) ==
    IF position + size < length THEN position + size ELSE length

InitChunks ==
    /\ ChunksOnly
    /\ sequence_length \in 0..MaxLen
    /\ chunk_size \in 1..MaxChunk
    /\ start_offset \in 0..sequence_length
    /\ curr_position = start_offset
    /\ windows = << >>
    /\ chunks_pc = "iterating"

\* Iterator::next of IntervalChunks: the next window, or None at the end.
NextChunk ==
    /\ chunks_pc = "iterating"
    /\ IF curr_position >= sequence_length
       THEN /\ chunks_pc' = "done"
            /\ UNCHANGED <<curr_position, windows>>
       ELSE /\ windows' = Append(windows, <<curr_position, window_end(curr_position, chunk_size, sequence_length)>>)
            /\ curr_position' = window_end(curr_position, chunk_size, sequence_length)
            /\ UNCHANGED chunks_pc
    /\ UNCHANGED <<sequence_length, chunk_size, start_offset>>
    /\ UNCHANGED chunksFrame

NextChunks == NextChunk

SpecChunks == InitChunks /\ [][NextChunks]_vars

---------------------------------------------------------------------------
(* ExtractMods::run (extract/subcommand.rs 452-866): a thread runs the      *)
(* windows of each reference on the thread pool and sends one result per    *)
(* window into a bounded channel; the calling thread creates the writer and *)
(* then receives until the channel is empty and disconnected                *)

\* Numbers of windows of a reference.
WindowCounts == 1..3

\* Sizes of the thread pool.
PoolSizes == 1..2

\* Largest channel capacity (100_000 in the program).
MaxCapacity == 2

\* Messages the thread of the closure sends after the references (726-772):
\* none when no pass over the records follows, else the closing message of
\* that pass.
UnmappedSends == 0..1

RECURSIVE SumSeq(_)
SumSeq(s) == IF s = << >> THEN 0 ELSE Head(s) + SumSeq(Tail(s))

\* The references with their numbers of windows: at least one window each,
\* as many together as one reference can have.
ReferenceAndIntervals == {s \in UNION {[1..n -> WindowCounts] : n \in 0..Cardinality(WindowCounts)} : SumSeq(s) <= Cardinality(WindowCounts)}

\* The thread that runs the closure given to pool.install.
Installer == 0

IdleWorker == [st |-> "idle", item |-> << >>, blocked_at |-> 0]

\* What batch_result is: Ok(ReadsBaseModProfile) or Err.
BatchResults == {"Ok", "Err"}

\* A channel without a bound: a send never waits.
send_ready_Unbounded(queue, cap) == TRUE

\* bounded(cap): a send goes through while the channel holds fewer than cap
\* messages and waits otherwise.
send_ready(queue, cap) == Len(queue) < cap

\* Windows left to the parallel iterator, were an Err to end the iteration.
remaining_intervals_StopOnErr(todo, window, batch_result) ==
    IF batch_result = "Err" THEN {} ELSE todo \ {window}

\* Windows left to the parallel iterator once a thread has taken one: the
\* closure of map returns a number whatever batch_result is.
remaining_intervals(todo, window, batch_result) == todo \ {window}

\* The channel never becomes disconnected.
disconnected_Never(p_pc) == FALSE

\* Every Sender is dropped: snd moved into the closure of the spawned thread
\* and its clones live in calls that have returned.
disconnected(p_pc) == p_pc = "done"

InitPipe ==
    /\ PipeOnly
    /\ reference_and_intervals \in ReferenceAndIntervals
    /\ channel_cap \in 1..MaxCapacity
    /\ threads \in PoolSizes
    /\ tail_sends \in UnmappedSends
    /\ reference_i = 0
    /\ interval_todo = {}
    /\ kept_windows = {}
    /\ workers = [w \in Installer..threads |-> IdleWorker]
    /\ chan = << >>
    /\ sent = {}
    /\ n_sent = 0
    /\ received = << >>
    /\ producer_pc = "references"
    /\ consumer_pc = "init"

\* One turn of `for (reference_record, interval_chunks) in ...` (648-724):
\* the windows that overlap the include positions are kept, and a contig
\* the schedule has no reads for is passed over.
StartReference(overlapping, chrom_has_reads) ==
    /\ producer_pc = "references"
    /\ reference_i < Len(reference_and_intervals)
    /\ overlapping \subseteq 1..reference_and_intervals[reference_i + 1]
    /\ reference_i' = reference_i + 1
    /\ IF chrom_has_reads
       THEN /\ interval_todo' = overlapping
            /\ kept_windows' = kept_windows \cup {<<reference_i + 1, w>> : w \in overlapping}
            /\ producer_pc' = "par_iter"
       ELSE UNCHANGED <<interval_todo, kept_windows, producer_pc>>
    /\ UNCHANGED <<reference_and_intervals, channel_cap, threads, workers, chan, sent, n_sent, received, tail_sends, consumer_pc>>
    /\ UNCHANGED pipeFrame

\* A thread of the pool takes a window and computes its batch_result
\* (686-707).  The threads of the pool are alike: the idle one of lowest
\* number stands for any of them.
TakeWindow(w, window, batch_result) ==
    /\ producer_pc = "par_iter"
    /\ w \in 1..threads
    /\ workers[w].st = "idle"
    /\ \A v \in 1..(w - 1) : workers[v].st # "idle"
    /\ window \in interval_todo
    /\ workers' = [workers EXCEPT ![w] = [st |-> "sending", item |-> <<reference_i, window, batch_result>>, blocked_at |-> 0]]
    /\ interval_todo' = remaining_intervals(interval_todo, window, batch_result)
    /\ UNCHANGED <<reference_and_intervals, channel_cap, threads, reference_i, kept_windows, chan, sent, n_sent, received, tail_sends, producer_pc, consumer_pc>>
    /\ UNCHANGED pipeFrame

\* snd.send(item) returning: Err once the Receiver is dropped, Ok with the
\* item in the channel otherwise.
SendReturns(w) ==
    /\ workers' = [workers EXCEPT ![w] = IdleWorker]
    /\ IF consumer_pc = "failed"
       THEN UNCHANGED <<chan, sent, n_sent>>
       ELSE /\ chan' = Append(chan, workers[w].item)
            /\ sent' = sent \cup {workers[w].item}
            /\ n_sent' = n_sent + 1

\* snd.send(batch_result) is called (709): it returns at once or, the channel
\* being full, parks the thread.
TrySend(w) ==
    /\ w \in DOMAIN workers
    /\ workers[w].st = "sending"
    /\ IF consumer_pc = "failed" \/ send_ready(chan, channel_cap)
       THEN SendReturns(w)
       ELSE /\ workers' = [workers EXCEPT ![w].st = "blocked", ![w].blocked_at = Len(received)]
            /\ UNCHANGED <<chan, sent, n_sent>>
    /\ UNCHANGED <<reference_and_intervals, channel_cap, threads, reference_i, interval_todo, kept_windows, received, tail_sends, producer_pc, consumer_pc>>
    /\ UNCHANGED pipeFrame

\* A parked send is woken: there is room in the channel or the Receiver is
\* gone.
CompleteSend(w) ==
    /\ w \in DOMAIN workers
    /\ workers[w].st = "blocked"
    /\ consumer_pc = "failed" \/ send_ready(chan, channel_cap)
    /\ SendReturns(w)
    /\ UNCHANGED <<reference_and_intervals, channel_cap, threads, reference_i, interval_todo, kept_windows, received, tail_sends, producer_pc, consumer_pc>>
    /\ UNCHANGED pipeFrame

\* .sum() of the parallel iterator returns: every window of the reference
\* has been taken and its send has returned (721).
EndReference ==
    /\ producer_pc = "par_iter"
    /\ interval_todo = {}
    /\ \A w \in 1..threads : workers[w].st = "idle"
    /\ producer_pc' = "references"
    /\ UNCHANGED <<reference_and_intervals, channel_cap, threads, reference_i, interval_todo, kept_windows, workers, chan, sent, n_sent, received, tail_sends, consumer_pc>>
    /\ UNCHANGED pipeFrame

\* The loop over the references is over (726): the pass over the unmapped
\* reads follows when asked for, else the closure returns.
EndReferences ==
    /\ producer_pc = "references"
    /\ reference_i = Len(reference_and_intervals)
    /\ producer_pc' = IF tail_sends > 0 THEN "unmapped" ELSE "done"
    /\ UNCHANGED <<reference_and_intervals, channel_cap, threads, reference_i, interval_todo, kept_windows, workers, chan, sent, n_sent, received, tail_sends, consumer_pc>>
    /\ UNCHANGED pipeFrame

\* The thread of the closure sends a message of process_records_to_chan or
\* the closing message (739-752, 760-772).
TailSend ==
    /\ producer_pc = "unmapped"
    /\ workers[Installer].st = "idle"
    /\ tail_sends > 0
    /\ workers' = [workers EXCEPT ![Installer] = [st |-> "sending", item |-> <<0, tail_sends, "Ok">>, blocked_at |-> 0]]
    /\ tail_sends' = tail_sends - 1
    /\ UNCHANGED <<reference_and_intervals, channel_cap, threads, reference_i, interval_todo, kept_windows, chan, sent, n_sent, received, producer_pc, consumer_pc>>
    /\ UNCHANGED pipeFrame

\* The closure returns and the spawned thread ends (775).
EndProducer ==
    /\ producer_pc = "unmapped"
    /\ workers[Installer].st = "idle"
    /\ tail_sends = 0
    /\ producer_pc' = "done"
    /\ UNCHANGED <<reference_and_intervals, channel_cap, threads, reference_i, interval_todo, kept_windows, workers, chan, sent, n_sent, received, tail_sends, consumer_pc>>
    /\ UNCHANGED pipeFrame

\* The writer is created (777-825) and the loop over rcv is entered.
ConsumerStart ==
    /\ consumer_pc = "init"
    /\ consumer_pc' = "loop"
    /\ UNCHANGED <<reference_and_intervals, channel_cap, threads, reference_i, interval_todo, kept_windows, workers, chan, sent, n_sent, received, tail_sends, producer_pc>>
    /\ UNCHANGED pipeFrame

\* Creating the writer fails (`?` at 786-825): run returns and rcv is
\* dropped with whatever the channel holds.
ConsumerFail ==
    /\ consumer_pc = "init"
    /\ consumer_pc' = "failed"
    /\ chan' = << >>
    /\ UNCHANGED <<reference_and_intervals, channel_cap, threads, reference_i, interval_todo, kept_windows, workers, sent, n_sent, received, tail_sends, producer_pc>>
    /\ UNCHANGED pipeFrame

\* One turn of `for result in rcv` (827-853): an Ok result is written, an
\* Err result is logged, and the loop goes on.
Receive ==
    /\ consumer_pc = "loop"
    /\ chan # << >>
    /\ received' = Append(received, Head(chan))
    /\ chan' = Tail(chan)
    /\ UNCHANGED <<reference_and_intervals, channel_cap, threads, reference_i, interval_todo, kept_windows, workers, sent, n_sent, tail_sends, producer_pc, consumer_pc>>
    /\ UNCHANGED pipeFrame

\* The iteration over rcv ends: the channel is empty and disconnected.
ConsumerEnd ==
    /\ consumer_pc = "loop"
    /\ chan = << >>
    /\ disconnected(producer_pc)
    /\ consumer_pc' = "done"
    /\ UNCHANGED <<reference_and_intervals, channel_cap, threads, reference_i, interval_todo, kept_windows, workers, chan, sent, n_sent, received, tail_sends, producer_pc>>
    /\ UNCHANGED pipeFrame

ProducerStep ==
    \/ \E overlapping \in SUBSET WindowCounts, chrom_has_reads \in BOOLEAN : StartReference(overlapping, chrom_has_reads)
    \/ \E w \in PoolSizes, window \in WindowCounts, batch_result \in BatchResults : TakeWindow(w, window, batch_result)
    \/ \E w \in {Installer} \cup PoolSizes : TrySend(w)
    \/ \E w \in {Installer} \cup PoolSizes : CompleteSend(w)
    \/ EndReference
    \/ EndReferences
    \/ TailSend
    \/ EndProducer

ConsumerStep ==
    \/ ConsumerStart
    \/ ConsumerFail
    \/ Receive
    \/ ConsumerEnd

NextPipe == ProducerStep \/ ConsumerStep

SpecPipe == InitPipe /\ [][NextPipe]_vars

\* The threads are scheduled: whichever of the two sides can take a step
\* eventually takes one.
SpecPipeFair == SpecPipe /\ WF_vars(ProducerStep) /\ WF_vars(ConsumerStep)

---------------------------------------------------------------------------
(* ModBasePileup::iter_counts (mod_pileup.rs 456-462) and                   *)
(* BedMethylWriter::write (writers.rs 34-87)                                *)

\* The Vec<PileupFeatureCounts> a position can hold, as the labels of its
\* rows.
FeatureCountRows == {<<"m">>, <<"h", "m">>, << >>}

\* The orders in which HashMap::iter can go through the keys.
IterOrders(keys) == {order \in [1..Cardinality(keys) -> keys] : \A i, j \in DOMAIN order : i # j => order[i] # order[j]}

\* The sequence with the position put before the first larger one.
RECURSIVE InsertSorted(_, _)
InsertSorted(position, sorted) ==
    IF sorted = << >> THEN <<position>>
    ELSE IF position < Head(sorted) THEN <<position>> \o sorted
    ELSE <<Head(sorted)>> \o InsertSorted(position, Tail(sorted))

\* The keys as HashMap::iter yields them.
sorted_by_IterOrder(order) == order

\* .sorted_by(|(x, _), (y, _)| x.cmp(y)): the keys in increasing order.
RECURSIVE sorted_by(_)
sorted_by(order) ==
    IF order = << >> THEN << >>
    ELSE InsertSorted(Head(order), sorted_by(Tail(order)))

\* The rows write formats for the positions, in order.
RECURSIVE FormattedRows(_, _)
FormattedRows(positions, feature_counts) ==
    IF positions = << >> THEN << >>
    ELSE [i \in DOMAIN feature_counts[Head(positions)] |-> <<Head(positions), feature_counts[Head(positions)][i]>>] \o FormattedRows(Tail(positions), feature_counts)

InitWriter ==
    /\ WriterOnly
    /\ pileup_item = << >>
    /\ iter_order = << >>
    /\ iter_yield = << >>
    /\ buf_rows = << >>
    /\ rows_written = 0
    /\ writer_pc = "building"

\* position_feature_counts.insert(pos, feature_counts): positions come in any
\* order, a position already there gets the new value.
InsertPosition(position, feature_counts) ==
    /\ writer_pc = "building"
    /\ pileup_item' = [p \in DOMAIN pileup_item \cup {position} |-> IF p = position THEN feature_counts ELSE pileup_item[p]]
    /\ UNCHANGED <<iter_order, iter_yield, buf_rows, rows_written, writer_pc>>
    /\ UNCHANGED writerFrame

\* write(item): the rows of the positions iter_counts yields go to
\* buf_writer one by one; the first n_ok writes succeed, and a failed write
\* returns the error.
Write(order, n_ok) ==
    /\ writer_pc = "building"
    /\ order \in IterOrders(DOMAIN pileup_item)
    /\ n_ok \in 0..Len(FormattedRows(sorted_by(order), pileup_item))
    /\ iter_order' = order
    /\ iter_yield' = sorted_by(order)
    /\ buf_rows' = SubSeq(FormattedRows(sorted_by(order), pileup_item), 1, n_ok)
    /\ IF n_ok = Len(FormattedRows(sorted_by(order), pileup_item))
       THEN /\ rows_written' = n_ok
            /\ writer_pc' = "Ok"
       ELSE /\ rows_written' = 0
            /\ writer_pc' = "Err"
    /\ UNCHANGED pileup_item
    /\ UNCHANGED writerFrame

NextWriter ==
    \/ \E position \in 0..MaxPos, feature_counts \in FeatureCountRows : InsertPosition(position, feature_counts)
    \/ \E order \in IterOrders(DOMAIN pileup_item), n_ok \in 0..(2 * (MaxPos + 1)) : Write(order, n_ok)

SpecWriter == InitWriter /\ [][NextWriter]_vars

---------------------------------------------------------------------------
(* ExtractMods::process_records_to_chan (extract/subcommand.rs 868-930),    *)
(* called by run for the unmapped reads (739-751) and for an input without  *)
(* index (760-771)                                                          *)

\* Most records in the input.
MaxRecords == 3

\* Largest requested number of reads.
MaxReads == 2

\* What becomes of a record mod_iter yields: "read" and "unmapped" give a
\* profile (of a mapped and of an unmapped record), "filtered" gives a
\* profile the position filter empties, "failed" and "skipped" are the
\* errors of process_record.
RecordKinds == {"read", "unmapped", "filtered", "failed", "skipped"}

\* The message sent for a record: <<profiles, num_skips, num_fails>> of the
\* ReadsBaseModProfile after filter_read_base_mod_probs.
mod_profile(kind) ==
    CASE kind \in {"read", "unmapped"} -> <<1, 0, 0>>
      [] kind = "filtered" -> <<1, 1, 0>>
      [] kind = "failed" -> <<0, 0, 1>>
      [] kind = "skipped" -> <<0, 1, 0>>

\* n_reads.map(|nr| pb.position() as usize >= nr).unwrap_or(false)
done(quota, position) == quota # << >> /\ position >= quota[1]

InitRecords ==
    /\ RecordsOnly
    /\ records \in UNION {[1..n -> RecordKinds] : n \in 0..MaxRecords}
    /\ n_reads \in {<< >>} \cup {<<n>> : n \in 0..MaxReads}
    /\ only_mapped \in BOOLEAN
    /\ record_i = 0
    /\ pb_position = 0
    /\ sent_records = << >>
    /\ rcv_alive = TRUE
    /\ records_pc = "loop"

\* One turn of `for (record, read_id, mod_base_info) in &mut mod_iter`
\* (884-926).
ProcessRecord ==
    /\ records_pc = "loop"
    /\ record_i < Len(records)
    /\ record_i' = record_i + 1
    /\ IF records[record_i + 1] = "unmapped" /\ only_mapped
       THEN UNCHANGED <<pb_position, sent_records, records_pc>>
       ELSE /\ IF rcv_alive
               THEN /\ sent_records' = Append(sent_records, records[record_i + 1])
                    /\ pb_position' = pb_position + 1
               ELSE UNCHANGED <<pb_position, sent_records>>
            /\ records_pc' = IF done(n_reads, pb_position') THEN "returned" ELSE "loop"
    /\ UNCHANGED <<records, n_reads, only_mapped, rcv_alive>>
    /\ UNCHANGED recordsFrame

\* mod_iter is exhausted: the loop ends (927-929).
EndOfRecords ==
    /\ records_pc = "loop"
    /\ record_i = Len(records)
    /\ records_pc' = "returned"
    /\ UNCHANGED <<records, n_reads, only_mapped, record_i, pb_position, sent_records, rcv_alive>>
    /\ UNCHANGED recordsFrame

\* run has returned early and dropped rcv (777-825).
DropReceiver ==
    /\ records_pc = "loop"
    /\ rcv_alive
    /\ rcv_alive' = FALSE
    /\ UNCHANGED <<records, n_reads, only_mapped, record_i, pb_position, sent_records, records_pc>>
    /\ UNCHANGED recordsFrame

NextRecords ==
    \/ ProcessRecord
    \/ EndOfRecords
    \/ DropReceiver

SpecRecords == InitRecords /\ [][NextRecords]_vars

---------------------------------------------------------------------------
(* SampleModBaseProbs::run (commands.rs 337-438): process_records of         *)
(* ReadIdsToBaseModProbs (read_ids_to_base_mod_probs.rs 182-332) collects    *)
(* the probabilities of the sampled records, then run estimates the          *)
(* percentiles of every canonical base                                       *)

\* Read names of the input.
ReadNames == {"r1", "r2"}

\* Probabilities of the most likely call at the positions of one canonical
\* base of one record, in hundredths.
ProbSeqs == {<<60>>, <<90>>, <<60, 90>>}

\* What filter_positions leaves of the calls of one base of a record:
\* None (here << >>) or Some of a non-empty list.
FilteredProbs == {<< >>} \cup ProbSeqs

\* The modification information of a record: canonical base -> calls left.
\* The empty map is a record without modification information.
ModBaseInfos == UNION {[bases -> FilteredProbs] : bases \in SUBSET {"A", "C"}}

\* RecordSampler::ask
Indicators == {"Use", "Skip", "Done"}

\* seen (lines 139-141)
seen(inner, record_name) == record_name \in DOMAIN inner

\* add_read_without_probs (lines 44-48)
add_read_without_probs(inner, read_id) ==
    IF read_id \in DOMAIN inner THEN inner
    ELSE [r \in DOMAIN inner \cup {read_id} |-> IF r = read_id THEN << >> ELSE inner[r]]

\* add_mod_probs_for_read (lines 50-62) for every base of the record that
\* filter_positions left calls of (lines 239-315).
add_mod_probs_for_read(inner, read_id, mod_base_info) ==
    LET kept == {b \in DOMAIN mod_base_info : mod_base_info[b] # << >>}
        before == IF read_id \in DOMAIN inner THEN inner[read_id] ELSE << >>
        after == [b \in DOMAIN before \cup kept |->
                     (IF b \in DOMAIN before THEN before[b] ELSE << >>)
                     \o (IF b \in kept THEN mod_base_info[b] ELSE << >>)]
    IN  IF kept = {} THEN inner
        ELSE [r \in DOMAIN inner \cup {read_id} |-> IF r = read_id THEN after ELSE inner[r]]

\* mle_probs_per_base (lines 66-93): canonical base -> the probabilities of
\* all reads, here as the set of their values.
mle_probs_per_base(inner) ==
    LET bases == UNION {DOMAIN inner[r] : r \in DOMAIN inner}
    IN  [b \in bases |-> UNION {{inner[r][b][i] : i \in 1..Len(inner[r][b])} : r \in {q \in DOMAIN inner : b \in DOMAIN inner[q]}}]

\* Percentiles::new (spec section 4.4): Err for an empty sample, otherwise
\* the percentiles, of which the model keeps the lowest and the highest.
Percentiles_new(probs) ==
    IF probs = {} THEN <<"Err">>
    ELSE <<"Ok", CHOOSE p \in probs : \A q \in probs : p <= q, CHOOSE p \in probs : \A q \in probs : p >= q>>

InitSample ==
    /\ SampleOnly
    /\ sample_inner = << >>
    /\ n_sampled = 0
    /\ percentiles = << >>
    /\ sample_pc = "records"

\* One turn of `for (record, mod_base_info) in mod_base_info_iter`
\* (read_ids_to_base_mod_probs.rs 209-325).
SampleRecord(indicator, record_name, mod_base_info) ==
    /\ sample_pc = "records"
    /\ n_sampled < MaxRecords
    /\ n_sampled' = n_sampled + 1
    /\ sample_pc' = IF indicator = "Done" THEN "collected" ELSE "records"
    /\ sample_inner' =
          IF indicator # "Use" \/ seen(sample_inner, record_name) THEN sample_inner
          ELSE IF mod_base_info = << >> THEN add_read_without_probs(sample_inner, record_name)
          ELSE add_mod_probs_for_read(sample_inner, record_name, mod_base_info)
    /\ UNCHANGED percentiles
    /\ UNCHANGED sampleFrame

\* The iterator is exhausted: process_records returns Ok (327-331).
EndOfSampling ==
    /\ sample_pc = "records"
    /\ sample_pc' = "collected"
    /\ UNCHANGED <<sample_inner, n_sampled, percentiles>>
    /\ UNCHANGED sampleFrame

\* The rest of run (commands.rs 410-438): Percentiles::new for every base
\* of mle_probs_per_base, collected into a Result, and the table written.
Estimate ==
    /\ sample_pc = "collected"
    /\ LET probs == mle_probs_per_base(sample_inner)
           percs == [b \in DOMAIN probs |-> Percentiles_new(probs[b])]
       IN  IF \E b \in DOMAIN percs : percs[b][1] = "Err"
           THEN /\ sample_pc' = "Err"
                /\ UNCHANGED percentiles
           ELSE /\ sample_pc' = "Ok"
                /\ percentiles' = [b \in DOMAIN percs |-> <<percs[b][2], percs[b][3]>>]
    /\ UNCHANGED <<sample_inner, n_sampled>>
    /\ UNCHANGED sampleFrame

NextSample ==
    \/ \E indicator \in Indicators, record_name \in ReadNames, mod_base_info \in ModBaseInfos : SampleRecord(indicator, record_name, mod_base_info)
    \/ EndOfSampling
    \/ Estimate

SpecSample == InitSample /\ [][NextSample]_vars

---------------------------------------------------------------------------
(* ReadsBaseModProfile (read_ids_to_base_mod_probs.rs): process_records      *)
(* (982-1048) over the records of TrackingModRecordIter, and the merge of    *)
(* two collections by op and op_mut (923-961).  A profile is its record name *)

\* ReadsBaseModProfile::new
ReadsBaseModProfile(profiles, skips, fails) == [profiles |-> profiles, num_skips |-> skips, num_fails |-> fails]

\* What ReadBaseModProfile::process_record returns for a record.
RunResults == {"Ok", "Failed", "BadInput", "Skipped"}

\* The right operands of a merge: results of process_records elsewhere.
OtherProfiles == {ReadsBaseModProfile(p, k, f) : p \in UNION {[1..n -> ReadNames] : n \in 0..2}, k \in 0..1, f \in 0..1}

\* record names of the profiles
NamesOf(profiles) == {profiles[i] : i \in 1..Len(profiles)}

\* op (lines 932-954)
op(self, other) ==
    LET seen_names == NamesOf(self.profiles)
        to_add == SelectSeq(other.profiles, LAMBDA p : p \notin seen_names)
    IN  ReadsBaseModProfile(self.profiles \o to_add, self.num_skips + other.num_skips, self.num_fails + other.num_fails)

\* op_mut (lines 956-971)
op_mut(self, other) ==
    LET seen_names == NamesOf(self.profiles)
        to_add == SelectSeq(other.profiles, LAMBDA p : p \notin seen_names)
    IN  [self EXCEPT !.profiles = @ \o to_add, !.num_skips = @ + other.num_skips, !.num_fails = @ + other.num_fails]

InitProfile ==
    /\ ProfileOnly
    /\ agg = << >>
    /\ seen_records = {}
    /\ n_fails = 0
    /\ n_skips = 0
    /\ num_failed = 0
    /\ num_skipped = 0
    /\ tokens_used = 0
    /\ outcomes = << >>
    /\ reads_profile = ReadsBaseModProfile(<< >>, 0, 0)
    /\ profile_pc = "loop"

\* process_records returning its own counts only.
Returned_OwnCountsOnly == ReadsBaseModProfile(agg, n_skips, n_fails)

\* `return` of process_records (lines 1038-1046)
Returned == ReadsBaseModProfile(agg, num_skipped + n_skips, num_failed + n_fails)

\* TrackingModRecordIter passes over a record it cannot use and counts it
\* (spec section 7: skipped and failed reads are counted, the run goes on).
IterDrop(kind) ==
    /\ profile_pc = "loop"
    /\ Len(outcomes) < MaxRecords
    /\ num_failed' = IF kind = "failed" THEN num_failed + 1 ELSE num_failed
    /\ num_skipped' = IF kind = "skipped" THEN num_skipped + 1 ELSE num_skipped
    /\ outcomes' = Append(outcomes, <<"iter", kind>>)
    /\ UNCHANGED <<agg, seen_records, n_fails, n_skips, tokens_used, reads_profile, profile_pc>>
    /\ UNCHANGED profileFrame

\* One turn of `for (record, record_name, modbase_info) in &mut mod_iter`
\* (lines 1002-1036); Done leaves the loop and returns.
ProfileRecord(indicator, record_name, run_result) ==
    /\ profile_pc = "loop"
    /\ Len(outcomes) < MaxRecords
    /\ outcomes' = Append(outcomes, IF indicator = "Use" THEN <<run_result, record_name>> ELSE <<indicator, record_name>>)
    /\ IF indicator = "Use" /\ run_result = "Ok"
       THEN /\ seen_records' = seen_records \cup {record_name}
            /\ agg' = Append(agg, record_name)
            /\ tokens_used' = tokens_used + 1
            /\ UNCHANGED <<n_fails, n_skips>>
       ELSE /\ n_fails' = IF indicator = "Use" /\ run_result \in {"Failed", "BadInput"} THEN n_fails + 1 ELSE n_fails
            /\ n_skips' = IF indicator = "Use" /\ run_result = "Skipped" THEN n_skips + 1 ELSE n_skips
            /\ UNCHANGED <<seen_records, agg, tokens_used>>
    /\ IF indicator = "Done"
       THEN /\ profile_pc' = "returned"
            /\ reads_profile' = Returned
       ELSE UNCHANGED <<profile_pc, reads_profile>>
    /\ UNCHANGED <<num_failed, num_skipped>>
    /\ UNCHANGED profileFrame

\* mod_iter is exhausted: process_records returns (lines 1038-1046).
EndOfProfileRecords ==
    /\ profile_pc = "loop"
    /\ outcomes' = Append(outcomes, <<"end", "">>)
    /\ profile_pc' = "returned"
    /\ reads_profile' = Returned
    /\ UNCHANGED <<agg, seen_records, n_fails, n_skips, num_failed, num_skipped, tokens_used>>
    /\ UNCHANGED profileFrame

\* The collection is merged with another one, by op or in place by op_mut.
Merge(other, in_place) ==
    /\ profile_pc = "returned"
    /\ reads_profile' = IF in_place THEN op_mut(reads_profile, other) ELSE op(reads_profile, other)
    /\ profile_pc' = "merged"
    /\ UNCHANGED <<agg, seen_records, n_fails, n_skips, num_failed, num_skipped, tokens_used, outcomes>>
    /\ UNCHANGED profileFrame

NextProfile ==
    \/ \E kind \in {"failed", "skipped"} : IterDrop(kind)
    \/ \E indicator \in Indicators, record_name \in ReadNames, run_result \in RunResults : ProfileRecord(indicator, record_name, run_result)
    \/ EndOfProfileRecords
    \/ \E other \in OtherProfiles, in_place \in BOOLEAN : Merge(other, in_place)

SpecProfile == InitProfile /\ [][NextProfile]_vars

---------------------------------------------------------------------------
(* The read counters of ExtractMods::run (extract/subcommand.rs): a worker   *)
(* filters the profiles of its reads by position (707, 908; 968-1012) and    *)
(* sends them, the consumer adds each result to n_used, n_failed and         *)
(* n_skipped (828-852).  The profile of a read is the list of its            *)
(* modification positions, each TRUE when ReferencePositionFilter::keep      *)
(* (943-966), or include_unmapped for a position without reference           *)
(* coordinate, accepts it                                                    *)

\* Profiles of one read before the filter: up to two positions.
ReadProfiles == UNION {[1..n -> BOOLEAN] : n \in 1..2}

\* The collections a worker computes: up to MaxReads profiles, and the reads
\* already counted as skipped or failed.
UnfilteredProfiles == {ReadsBaseModProfile(p, k, f) : p \in UNION {[1..n -> ReadProfiles] : n \in 0..MaxReads}, k \in 0..1, f \in 0..1}

\* filter_read_base_mod_probs (lines 968-1012)
filter_read_base_mod_probs(reads_base_mods_profile) ==
    LET profiles == [i \in 1..Len(reads_base_mods_profile.profiles) |-> SelectSeq(reads_base_mods_profile.profiles[i], LAMBDA kept : kept)]
        empty == Cardinality({i \in 1..Len(profiles) : profiles[i] = << >>})
    IN  ReadsBaseModProfile(profiles, reads_base_mods_profile.num_skips + empty, reads_base_mods_profile.num_fails)

\* num_reads (read_ids_to_base_mod_probs.rs 1059-1061)
num_reads(self) == Len(self.profiles)

InitCounts ==
    /\ CountsOnly
    /\ in_flight = << >>
    /\ n_messages = 0
    /\ n_used = 0
    /\ n_failed = 0
    /\ n_skipped = 0
    /\ reads_reached = 0
    /\ reads_emptied = 0

\* A worker filters the profiles of a batch or of a record and sends them
\* (lines 700-711, 906-909).  reads and emptied are history carried with
\* the message.
SendProfiles(reads_base_mod_profile) ==
    /\ in_flight = << >>
    /\ n_messages < MaxRecords
    /\ n_messages' = n_messages + 1
    /\ LET filtered == filter_read_base_mod_probs(reads_base_mod_profile)
       IN  in_flight' = <<[ok |-> TRUE,
                           profile |-> filtered,
                           reads |-> Len(reads_base_mod_profile.profiles) + reads_base_mod_profile.num_skips + reads_base_mod_profile.num_fails,
                           emptied |-> filtered.num_skips - reads_base_mod_profile.num_skips]>>
    /\ UNCHANGED <<n_used, n_failed, n_skipped, reads_reached, reads_emptied>>
    /\ UNCHANGED countsFrame

\* A worker sends the error of a window (lines 693-711).
SendError ==
    /\ in_flight = << >>
    /\ n_messages < MaxRecords
    /\ n_messages' = n_messages + 1
    /\ in_flight' = <<[ok |-> FALSE, profile |-> ReadsBaseModProfile(<< >>, 0, 0), reads |-> 0, emptied |-> 0]>>
    /\ UNCHANGED <<n_used, n_failed, n_skipped, reads_reached, reads_emptied>>
    /\ UNCHANGED countsFrame

\* One turn of `for result in rcv` (lines 828-852).  remove_inferred
\* (read_ids_to_base_mod_probs.rs 913-920) maps the profiles one to one and
\* keeps both counts.
ReceiveProfiles ==
    /\ in_flight # << >>
    /\ in_flight' = << >>
    /\ LET result == in_flight[1]
       IN  /\ IF result.ok
              THEN /\ n_used' = n_used + num_reads(result.profile)
                   /\ n_failed' = n_failed + result.profile.num_fails
                   /\ n_skipped' = n_skipped + result.profile.num_skips
              ELSE UNCHANGED <<n_used, n_failed, n_skipped>>
           /\ reads_reached' = reads_reached + result.reads
           /\ reads_emptied' = reads_emptied + result.emptied
    /\ UNCHANGED n_messages
    /\ UNCHANGED countsFrame

NextCounts ==
    \/ \E reads_base_mod_profile \in UnfilteredProfiles : SendProfiles(reads_base_mod_profile)
    \/ SendError
    \/ ReceiveProfiles

SpecCounts == InitCounts /\ [][NextCounts]_vars

---------------------------------------------------------------------------
(* Update::run (commands.rs 732-792): every record of the input is           *)
(* rewritten by update_mod_tags and written to the output; three totals are  *)
(* reported at the end                                                       *)

\* What becomes of one element of reader.records(): the read itself fails,
\* update_mod_tags returns an error, or the record is updated and then
\* out_bam.write fails or succeeds.
UpdateOutcomes == {"read error", "BadInput", "Failed", "Skipped", "write error", "written"}

InitUpdate ==
    /\ UpdateOnly
    /\ total = 0
    /\ total_failed = 0
    /\ total_skipped = 0
    /\ update_log = << >>
    /\ update_pc = "loop"

\* One turn of `for (i, result) in reader.records().enumerate()`
\* (lines 755-782); i is the number of records read before this one.
UpdateRecord(outcome) ==
    /\ update_pc = "loop"
    /\ Len(update_log) < MaxRecords
    /\ LET i == Len(update_log)
       IN  /\ total' = IF outcome = "written" THEN i ELSE total
           /\ total_failed' = IF outcome \in {"read error", "BadInput", "Failed", "write error"} THEN total_failed + 1 ELSE total_failed
           /\ total_skipped' = IF outcome = "Skipped" THEN total_skipped + 1 ELSE total_skipped
    /\ update_log' = Append(update_log, outcome)
    /\ UNCHANGED update_pc
    /\ UNCHANGED updateFrame

\* The records are exhausted: the totals are reported (lines 784-790).
EndOfUpdate ==
    /\ update_pc = "loop"
    /\ update_pc' = "done"
    /\ UNCHANGED <<total, total_failed, total_skipped, update_log>>
    /\ UNCHANGED updateFrame

NextUpdate ==
    \/ \E outcome \in UpdateOutcomes : UpdateRecord(outcome)
    \/ EndOfUpdate

SpecUpdate == InitUpdate /\ [][NextUpdate]_vars

---------------------------------------------------------------------------
(* Vocabulary of the properties of SpecFV *)

\* Number of add_feature(strand, feature) calls made so far.
Added(strand, feature) == calls[<<strand, feature>>]

CallsOnStrand(strand) == SumOver(calls, {strand} \X Feature)

RowIndex == DOMAIN rows

\* The seven raw counts of a row.
RawSum(r) ==
    r.n_canonical + r.n_modified + r.n_other_modified + r.n_delete
        + r.n_filtered + r.n_diff + r.n_nocall

\* The base family a row reports: rows labelled a (or A) are adenine rows,
\* rows labelled h, m or C are cytosine rows.
FamilyOf(r) == IF r.raw_mod_code \in {"a", "A"} THEN "A" ELSE "C"

\* Canonical code and modification codes of a family.
FamilyModCodes(fam) == IF fam = "A" THEN {"a"} ELSE {"h", "m"}

FamilyCodes(fam) == {fam} \cup FamilyModCodes(fam)

\* Calls with a code of the family made on the strand.
FamilyCalls(strand, fam) ==
    SumOver(calls, {strand} \X ({"ModCall"} \X FamilyCodes(fam)))

\* Slot of a code in the documented layout (lines 36-59).
DocSlot(strand, code) ==
    (IF strand = "Positive" THEN 0 ELSE 11)
        + (CASE code = "A" -> 6 [] code = "C" -> 7 [] code = "a" -> 8
             [] code = "h" -> 9 [] code = "m" -> 10)

\* Sum of the slots of the family on the strand, without any overflow.
FamilySlotSum(strand, fam) ==
    IF fam = "A"
    THEN counts[DocSlot(strand, "A")] + counts[DocSlot(strand, "a")]
    ELSE counts[DocSlot(strand, "C")] + counts[DocSlot(strand, "h")]
            + counts[DocSlot(strand, "m")]

RowsOf(strand, fam) ==
    {i \in RowIndex : rows[i].strand = strand /\ FamilyOf(rows[i]) = fam}

TypeOK ==
    /\ counts \in [Slots -> 0..U32Max]
    /\ pc \in {"idle", "accumulate", "decoded", "panicked"}
    /\ feature_vector \in [Slots -> 0..U32Max]
    /\ status \in {"idle", "iter", "column", "Ok", "Err", "panicked"}
    /\ DOMAIN position_feature_counts \subseteq Positions

---------------------------------------------------------------------------
\* C1: after any add_feature calls on a fresh vector and a decode, every
\* emitted row on strand s has n_canonical + n_modified + n_other_modified +
\* n_delete + n_filtered + n_diff + n_nocall equal to the number of
\* add_feature calls made with strand s.
C1_RowsReproduceCalls ==
    pc = "decoded" =>
        \A i \in RowIndex : RawSum(rows[i]) = CallsOnStrand(rows[i].strand)

---------------------------------------------------------------------------
\* C2: decode emits no row for a (strand, family) without observations: an
\* adenine row on s needs a ModCall(A) or ModCall(a) added on s, a cytosine
\* row needs a ModCall(C), ModCall(h) or ModCall(m) added on s, and a strand
\* that only received Delete, Filtered or NoCall features has no row.
C2_NoRowWithoutObservation ==
    pc = "decoded" =>
        /\ \A i \in RowIndex :
              FamilyCalls(rows[i].strand, FamilyOf(rows[i])) >= 1
        /\ \A s \in Strand :
              (\A code \in ModCode : Added(s, <<"ModCall", code>>) = 0)
                  => ~ \E i \in RowIndex : rows[i].strand = s

\* Rows were emitted for one strand while the other strand, which received
\* only Delete, Filtered or NoCall features, got none.
C2_Witness ==
    /\ pc = "decoded"
    /\ \E i \in RowIndex : rows[i].strand = "Positive"
    /\ CallsOnStrand("Negative") >= 1
    /\ \A code \in ModCode : Added("Negative", <<"ModCall", code>>) = 0
    /\ ~ \E i \in RowIndex : rows[i].strand = "Negative"

---------------------------------------------------------------------------
\* C3: every emitted row has filtered_coverage equal to the family's
\* canonical count plus the counts of the family's modified codes on that
\* strand, the value is at least 1, and decode neither wraps the sum nor
\* aborts, for all slot values up to the u32 maximum.
C3_CoverageIsFamilySum ==
    /\ pc # "panicked"
    /\ pc = "decoded" =>
          \A i \in RowIndex :
              /\ rows[i].filtered_coverage
                    = FamilySlotSum(rows[i].strand, FamilyOf(rows[i]))
              /\ rows[i].filtered_coverage >= 1

---------------------------------------------------------------------------
\* Offset of a strand's eleven slots.
StrandOffset(strand) == IF strand = "Positive" THEN 0 ELSE 11

\* The slots of a strand that count a base or a code outside the family: the
\* NoCall slots of the other three bases and the ModCall slots of the other
\* family (documented layout, lines 36-59).
OtherBaseSlots(strand, fam) ==
    {StrandOffset(strand) + k :
        k \in IF fam = "A" THEN {3, 4, 5, 7, 9, 10} ELSE {2, 4, 5, 6, 8}}

SaturatedSum(S) ==
    LET summed == SumOver(counts, S)
    IN  IF summed > U32Max THEN U32Max ELSE summed

\* C4: for every row emitted for family F on strand s, n_diff counts the
\* features added on s with a base or a code outside F: counters of the
\* opposite strand never contribute and every other-family counter of the
\* same strand does, for both families and both strands.
C4_NDiffIsSameStrandOtherFamily ==
    pc = "decoded" =>
        \A i \in RowIndex :
            rows[i].n_diff
                = SaturatedSum(OtherBaseSlots(rows[i].strand, FamilyOf(rows[i])))

---------------------------------------------------------------------------
\* Value of the family's coverage as decode computes it.
ComputedCoverage(strand, fam) == FamilySlotSum(strand, fam) % (U32Max + 1)

\* The fields the rows of one family on one strand share.
SameFamilyFields(r, q) ==
    /\ r.strand = q.strand
    /\ r.filtered_coverage = q.filtered_coverage
    /\ r.n_canonical = q.n_canonical
    /\ r.n_delete = q.n_delete
    /\ r.n_filtered = q.n_filtered
    /\ r.n_diff = q.n_diff
    /\ r.n_nocall = q.n_nocall

CodeRows(strand, code) ==
    {i \in RowIndex : rows[i].strand = strand /\ rows[i].raw_mod_code = code}

\* The counts a per-code cytosine row must carry.
PerCodeCounts(strand, code, sibling) ==
    \A i \in CodeRows(strand, code) :
        /\ rows[i].n_modified = counts[DocSlot(strand, code)]
        /\ rows[i].n_other_modified = counts[DocSlot(strand, sibling)]

---------------------------------------------------------------------------
\* C6: in Combine mode decode emits exactly one row per (strand, family)
\* with observations, labelled with the family's representative code (the
\* code of the canonical base, C for cytosine), with n_modified the sum of
\* the family's non-canonical counts and n_other_modified 0, and no per-code
\* row besides; for the adenine family as well as for the cytosine family.
C6_CombineOneRowPerFamily ==
    (pc = "decoded" /\ pileup_options = "Combine") =>
        \A s \in Strand, fam \in {"A", "C"} :
            FamilyCalls(s, fam) >= 1 =>
                \E i \in RowIndex :
                    /\ RowsOf(s, fam) = {i}
                    /\ rows[i].raw_mod_code = fam
                    /\ rows[i].n_modified
                          = SumOver(counts,
                                {DocSlot(s, code) : code \in FamilyModCodes(fam)})
                    /\ rows[i].n_other_modified = 0

---------------------------------------------------------------------------
\* Slot of a feature in the documented layout (lines 36-59); the layout has
\* no slot for ModCall(G) and ModCall(T).
HasDocSlot(feature) == feature \notin {<<"ModCall", "G">>, <<"ModCall", "T">>}

DocFeatureSlot(strand, feature) ==
    StrandOffset(strand)
        + (CASE feature = <<"Delete", "-">>   -> 0
             [] feature = <<"Filtered", "-">> -> 1
             [] feature = <<"NoCall", "A">>   -> 2
             [] feature = <<"NoCall", "C">>   -> 3
             [] feature = <<"NoCall", "G">>   -> 4
             [] feature = <<"NoCall", "T">>   -> 5
             [] feature[1] = "ModCall"        -> DocSlot("Positive", feature[2]))

\* C7: every add_feature(strand, feature) increments exactly one of the 22
\* slots, the one matching strand and feature, by 1 (staying at the maximum
\* when already there) and leaves the other 21 unchanged; no feature is
\* dropped without being counted.
C7_AddFeatureCountsEveryFeature ==
    [][ \A s \in Strand, f \in Feature :
          (pc = "accumulate" /\ calls' = [calls EXCEPT ![<<s, f>>] = @ + 1]) =>
              \E k \in Slots :
                  /\ HasDocSlot(f) => k = DocFeatureSlot(s, f)
                  /\ counts'[k] = (IF counts[k] = U32Max THEN U32Max
                                   ELSE counts[k] + 1)
                  /\ Added(s, f) < U32Max => counts'[k] # counts[k]
                  /\ \A j \in Slots \ {k} : counts'[j] = counts[j] ]_vars

---------------------------------------------------------------------------
(* Vocabulary of the properties of SpecRegion *)

\* The rows stored for a position of the result.
RowsAt(p) == {position_feature_counts[p][i] : i \in DOMAIN position_feature_counts[p]}

\* The bag holding each alignment of a set once.
OnceEach(alignments) == [a \in alignments |-> 1]

\* Label of the row that reports modification code `code`: the code itself
\* in the per-code modes, the family's C under Combine.
LabelOf(code) == IF pileup_numeric_options = "Combine" THEN "C" ELSE code

---------------------------------------------------------------------------
\* C8: the result of process_region holds no position whose row list is
\* empty: a position where no primary alignment contributes, or where decode
\* yields no rows, is absent from the result, and num_results counts only
\* positions that have rows.
C8_SparseOutput ==
    /\ \A p \in DOMAIN position_feature_counts :
          position_feature_counts[p] # << >>
    /\ num_results(position_feature_counts)
          = Cardinality({p \in DOMAIN pileup_columns :
                            /\ \E a \in DOMAIN pileup_columns[p] : Contributes(a)
                            /\ position_feature_counts[p] # << >>})

---------------------------------------------------------------------------
\* The column of two reads on one strand at a cytosine, one called
\* Canonical(0.95) and one whose best call is Modified(0.8, m).
C9_Column(is_reverse) ==
    OnceEach({ BaseAlignment(is_reverse, "C", ModInfo({"m"}, "C", <<"Canonical", 95, "-">>)),
               BaseAlignment(is_reverse, "C", ModInfo({"m"}, "C", <<"Modified", 80, "m">>)) })

---------------------------------------------------------------------------
\* The column of a single reverse-strand read with one m call of
\* probability 0.9.
C10_Column ==
    OnceEach({ BaseAlignment(TRUE, "C", ModInfo({"m"}, "C", <<"Modified", 90, "m">>)) })

---------------------------------------------------------------------------
\* The threshold the priority rule gives an entry: the per-code value when
\* there is one for the winning code, else the per-base value when there is
\* one for the canonical base, else the default.
PriorityThreshold(base, entry) ==
    IF entry \in DOMAIN per_mod_thresholds THEN per_mod_thresholds[entry]
    ELSE IF base \in DOMAIN per_base_thresholds THEN per_base_thresholds[base]
    ELSE default_threshold

\* C12: the threshold applied to a winning call is the per-modification-code
\* override when there is one for the winning code, otherwise the per-base
\* override for the canonical base, otherwise the global default: the call
\* is Filtered exactly when the winning probability is below that value, and
\* a per-base or default value never overrides a per-code value.
C12_ThresholdPriority ==
    (caller_pc = "called" /\ DOMAIN base_mod_probs # {}) =>
        /\ (base_mod_call[1] = "Filtered")
              <=> (winner[2] < PriorityThreshold(canonical_base, winner[1]))
        /\ winner[1] \in DOMAIN per_mod_thresholds =>
              ((base_mod_call[1] = "Filtered") <=> (winner[2] < per_mod_thresholds[winner[1]]))
        /\ base_mod_call[1] # "Filtered" =>
              base_mod_call = (IF winner[1] = "canonical"
                          THEN <<"Canonical", winner[2], "-">>
                          ELSE <<"Modified", winner[2], winner[1]>>)

\* An m call of 0.9 is filtered by the per-code threshold 0.95 although the
\* per-base threshold of C, 0.85, would pass it.
C12_Witness ==
    /\ caller_pc = "called"
    /\ "m" \in DOMAIN per_mod_thresholds
    /\ per_mod_thresholds["m"] = 95
    /\ "C" \in DOMAIN per_base_thresholds
    /\ per_base_thresholds["C"] = 85
    /\ canonical_base = "C"
    /\ winner = <<"m", 90>>
    /\ base_mod_call[1] = "Filtered"

---------------------------------------------------------------------------
\* The character of the strand field a query of the strand matches.
StrandField(strand) == IF strand = "Positive" THEN "+" ELSE "-"

\* Some accepted line of the reference covers the position on the strand.
CoveredByAcceptedLine(chrom_id, position, strand) ==
    \E line \in accepted :
        /\ line[1] = chrom_id
        /\ line[2] <= position
        /\ position < line[3]
        /\ line[4] \in {StrandField(strand), "."}

\* C13: for the filter built from a BED file, contains(ref_id, position,
\* strand) is true exactly when an accepted line of that reference has
\* start <= position < stop and a strand field equal to the queried strand
\* or '.'; it is false for a reference id without intervals, a negative one
\* included, and a '+' line never answers a '-' query nor the reverse.
C13_ContainsIffAcceptedLine ==
    (filter_pc \in {"bed", "searching"} /\ query[3] # "-") =>
        query_result = CoveredByAcceptedLine(query[1], query[2], query[3])

\* A '-' query inside an interval that only a '+' line lists is false, on a
\* reference that has intervals.
C13_Witness ==
    /\ filter_pc = "bed"
    /\ accepted = {<<0, 0, 2, "+">>, <<0, 1, 3, "+">>}
    /\ query = <<0, 1, "Negative">>
    /\ query_result = FALSE

\* The intervals of a lapper do not overlap pairwise.
NonOverlapping(lp) ==
    \A i, j \in DOMAIN lp :
        i < j => ~ (lp[i].start < lp[j].stop /\ lp[j].start < lp[i].stop)

---------------------------------------------------------------------------
\* ceil(n / d) for d >= 1
CeilDiv(n, d) == (n + d - 1) \div d

\* C15: for a sequence of length L, chunk size C >= 1 and start S <= L the
\* windows of IntervalChunks are half-open and non-empty, at most C wide,
\* ordered and contiguous (each starts where the previous one ends, the first
\* at S), so they do not overlap; when the iteration has ended they cover
\* exactly [S, L) and there are ceil((L - S) / C) of them, and the iteration
\* never yields more than that.
C15_WindowsTileTheRange ==
    chunks_pc \in {"iterating", "done"} =>
        /\ \A i \in DOMAIN windows :
              /\ windows[i][1] < windows[i][2]
              /\ windows[i][2] - windows[i][1] <= chunk_size
              /\ windows[i][2] <= sequence_length
              /\ windows[i][1] = (IF i = 1 THEN start_offset ELSE windows[i - 1][2])
        /\ Len(windows) <= CeilDiv(sequence_length - start_offset, chunk_size)
        /\ chunks_pc = "done" =>
              /\ Len(windows) = CeilDiv(sequence_length - start_offset, chunk_size)
              /\ windows # << >> => windows[Len(windows)][2] = sequence_length
              /\ windows = << >> => start_offset = sequence_length

\* Length 5 from start 1 in chunks of 3: [1,4) and the shorter [4,5).
C15_Witness ==
    /\ chunks_pc = "done"
    /\ sequence_length = 5
    /\ chunk_size = 3
    /\ start_offset = 1
    /\ windows = << <<1, 4>>, <<4, 5>> >>

---------------------------------------------------------------------------
(* Properties of SpecPipe *)

\* The items of a sequence.
Range(s) == {s[i] : i \in DOMAIN s}

\* The items sent for the window of the reference.
SentFor(reference, window) == {item \in sent : item[1] = reference /\ item[2] = window}

\* The producer has left the parallel iteration over the windows of the
\* reference.
PastReference(reference) ==
    \/ reference_i > reference
    \/ reference_i = reference /\ producer_pc # "par_iter"

\* Every send so far has returned Ok: the Receiver is still there.
ReceiverAlive == consumer_pc # "failed"

\* C16: the channel never holds more messages than its capacity, and a send
\* that found the channel full puts its message into the channel only after
\* the consumer has received a message since.
C16_Backpressure ==
    /\ [](Len(chan) <= channel_cap)
    /\ [][\A w \in DOMAIN workers :
            (workers[w].st = "blocked" /\ workers'[w].st = "idle" /\ n_sent' = n_sent + 1)
                => Len(received) > workers[w].blocked_at]_vars

\* A send is parked on a full channel while the consumer is receiving.
C16_Witness ==
    /\ consumer_pc = "loop"
    /\ received # << >>
    /\ Len(chan) = channel_cap
    /\ \E w \in DOMAIN workers : workers[w].st = "blocked" /\ workers[w].blocked_at = Len(received)

\* C17 as stated: once the producer is done, every window of every
\* reference has sent exactly one result.
C17_EveryWindowSendsOnce ==
    (producer_pc = "done" /\ ReceiverAlive) =>
        \A reference \in DOMAIN reference_and_intervals :
            \A window \in 1..reference_and_intervals[reference] :
                Cardinality(SentFor(reference, window)) = 1

\* C17, amended: every window that overlaps the include positions, of
\* every reference the schedule has reads for, sends exactly one result and
\* no other window sends any, whatever results were Err before; and the
\* consumer, when its loop ends, has received every result sent exactly once,
\* those sent after an Err included.
C17_EveryKeptWindowSendsOnce ==
    ReceiverAlive =>
        /\ n_sent = Cardinality(sent)
        /\ \A item \in sent :
            /\ Cardinality(SentFor(item[1], item[2])) = 1
            /\ item[1] # 0 => <<item[1], item[2]>> \in kept_windows
        /\ \A kept \in kept_windows :
            PastReference(kept[1]) => SentFor(kept[1], kept[2]) # {}
        /\ consumer_pc = "done" => (Range(received) = sent /\ Len(received) = n_sent)

\* The consumer has ended its loop after receiving an Err of a window and,
\* later, Ok results of another window of the same reference and of a window
\* of a following reference.
C17_Witness ==
    /\ consumer_pc = "done"
    /\ \E i, j, k \in DOMAIN received :
        /\ i < j /\ i < k
        /\ received[i][3] = "Err"
        /\ received[j][3] = "Ok" /\ received[j][1] = received[i][1]
        /\ received[k][3] = "Ok" /\ received[k][1] > received[i][1]

---------------------------------------------------------------------------
(* Properties of SpecWriter *)

\* The sequence is strictly increasing.
StrictlyAscending(s) == \A i, j \in DOMAIN s : i < j => s[i] < s[j]

---------------------------------------------------------------------------
(* Properties of SpecRecords *)

\* The records that give a profile to write: the reads, the unmapped ones
\* only when they are not passed over.
GivesProfile(kind) == kind = "read" \/ (kind = "unmapped" /\ ~only_mapped)

\* Number of records of the sequence that give a profile.
RECURSIVE NumProfiles(_)
NumProfiles(s) ==
    IF s = << >> THEN 0
    ELSE (IF GivesProfile(Head(s)) THEN 1 ELSE 0) + NumProfiles(Tail(s))

\* C20: with a requested number of reads N, the number of reads whose
\* profiles were sent when process_records_to_chan returns is min(N, reads
\* available); failed and skipped records do not count towards N.
C20_NumReadsExact ==
    (records_pc = "returned" /\ n_reads # << >> /\ rcv_alive) =>
        NumProfiles(sent_records) = (IF n_reads[1] < NumProfiles(records) THEN n_reads[1] ELSE NumProfiles(records))

---------------------------------------------------------------------------
(* Further properties of SpecRegion and properties of SpecWindow *)

\* The positions of the window.
Window == {p \in Positions : start_pos <= p /\ p < end_pos}

\* C25: every position process_region reports, and every column it works
\* on, lies in [start_pos, end_pos), whatever columns outside the window the
\* stream yields.
C25_PositionsInsideWindow ==
    /\ DOMAIN position_feature_counts \subseteq Window
    /\ status = "column" => pos \in Window

\* process_region has returned a pileup with a position after the stream
\* yielded a column before start_pos and one at or past end_pos.
C25_Witness ==
    /\ status = "Ok"
    /\ position_feature_counts # EmptyMap
    /\ stream_log.skipped
    /\ stream_log.stop = "off end"

\* C26: when the stream reports an error for a column inside the window,
\* process_region does not return Ok.
C26_StreamErrorIsReturned ==
    status = "Ok" => stream_log.stop # "error in window"

\* The alignment is a reference skip, or its record is secondary,
\* supplementary, duplicate or has a sequence of length zero.
Excluded(alignment) ==
    \/ alignment.is_refskip
    \/ alignment.is_secondary
    \/ alignment.is_supplementary
    \/ alignment.is_duplicate
    \/ alignment.seq_len = 0

\* The alignments of the bag that are not excluded.
Primary(bag) == {a \in DOMAIN bag : ~Excluded(a)}

\* C23: excluded alignments contribute nothing.  A column whose alignments
\* are all excluded has an empty feature vector and no observed code, and its
\* reported rows are those of an empty column; a column with one alignment
\* that is not excluded has the features and codes of that alignment alone.
C23_ExcludedAlignmentsAddNothing ==
    /\ status = "column" =>
        /\ Primary(column_alignments) = {} =>
            (feature_vector = new /\ observed_mod_codes = {})
        /\ \A a \in Primary(column_alignments) :
            (Primary(column_alignments) = {a} /\ column_alignments[a] = 1) =>
                /\ feature_vector = AlignmentFeatures(new, a, threshold)
                /\ observed_mod_codes = a.mod_codes
    /\ \A p \in DOMAIN pileup_columns :
        Primary(pileup_columns[p]) = {} =>
            position_feature_counts[p] = decode(new, {}, pileup_numeric_options)

\* A column holds an excluded alignment that carries modification codes next
\* to an alignment that is not excluded and has added its feature.
C23_Witness ==
    /\ status = "column"
    /\ \E a, b \in DOMAIN column_alignments :
        /\ Excluded(a) /\ a.mod_codes # {}
        /\ ~Excluded(b) /\ Primary(column_alignments) = {b}
        /\ feature_vector # new

\* The base of the read at the column, in the orientation of the read;
\* "None" when the alignment has no base there.
BaseOfRead(a) ==
    IF a.qpos = -1 \/ a.qpos >= a.seq_len \/ a.seq \notin DnaBase THEN "None"
    ELSE IF a.is_reverse THEN complement(a.seq) ELSE a.seq

\* The features an alignment that is not excluded is to add: at most one.
ExpectedFeatures(a) ==
    IF a.is_del THEN {<<"Delete", "-">>}
    ELSE IF BaseOfRead(a) = "None" THEN {}
    ELSE LET mod_call == get_mod_call(a, BaseOfRead(a), threshold)
         IN  CASE mod_call[1] = "None"      -> {<<"NoCall", BaseOfRead(a)>>}
               [] mod_call[1] = "Filtered"  -> {<<"Filtered", "-">>}
               [] mod_call[1] = "Canonical" -> {<<"ModCall", BaseOfRead(a)>>}
               [] mod_call[1] = "Modified"  -> {<<"ModCall", mod_call[3]>>}

\* Number of alignments of the bag, on the strand, that are not excluded and
\* whose call is Filtered.
FilteredCalls(bag, strand) ==
    LET S == {a \in Primary(bag) : StrandOfRecord(a) = strand /\ ExpectedFeatures(a) = {<<"Filtered", "-">>}}
    IN  SumOver([a \in S |-> bag[a]], S)

\* C24: an alignment that is not excluded adds at most one feature to its
\* column, on the strand of its record: Delete for a deletion; nothing when
\* it has no base there; NoCall of the read base (complemented for a
\* reverse-strand read) when get_mod_call returns None; Filtered for a
\* Filtered call; the canonical code of the read base for a Canonical call;
\* the modification code for a Modified call.  In the reported rows
\* n_filtered counts the Filtered calls of the row's strand and nothing else,
\* so a NoCall never appears there.
C24_OneFeaturePerAlignment ==
    /\ status = "column" =>
        \A a \in Primary(column_alignments) :
            (Primary(column_alignments) = {a} /\ column_alignments[a] = 1) =>
                feature_vector =
                    (IF ExpectedFeatures(a) = {} THEN new
                     ELSE add_feature(new, StrandOfRecord(a), CHOOSE f \in ExpectedFeatures(a) : TRUE))
    /\ \A p \in DOMAIN position_feature_counts :
        \A r \in RowsAt(p) : r.n_filtered = FilteredCalls(pileup_columns[p], r.strand)

\* A reported column of two reverse-strand reads with base C, one called m
\* and one without modification information: the m row counts the second in
\* n_nocall and has n_filtered = 0.
C24_Witness ==
    \E p \in DOMAIN position_feature_counts :
        /\ pileup_columns[p] = OnceEach({ BaseAlignment(TRUE, "C", ModInfo({"m"}, "C", <<"Modified", 90, "m">>)),
                                          BaseAlignment(TRUE, "C", NoTag) })
        /\ \E r \in RowsAt(p) :
              /\ r.strand = "Negative"
              /\ r.raw_mod_code = LabelOf("m")
              /\ r.n_modified = 1
              /\ r.n_nocall = 1
              /\ r.n_filtered = 0

---------------------------------------------------------------------------
(* Further properties of SpecFilter *)

\* Every line read so far had invalid syntax: lines were read, and none was
\* accepted or named a contig missing from the header.
OnlyInvalidLines ==
    /\ include_bed
    /\ n_intervals > 0
    /\ accepted = {}
    /\ warned = {}

\* C27: a coordinate file with a line of invalid syntax does not get past
\* the reading of its lines: from_bed_file neither panics nor goes on to
\* return a filter built without the line.
C27_InvalidLineIsError ==
    OnlyInvalidLines => filter_pc = "reading"

---------------------------------------------------------------------------
(* Properties of SpecSample *)

\* C21: when the sampling has collected no read, run does not end with Ok:
\* the estimation fails with the error of the empty sample.
C21_EmptySampleFails ==
    (sample_pc \in {"Ok", "Err"} /\ DOMAIN sample_inner = {}) => sample_pc = "Err"

---------------------------------------------------------------------------
(* Properties of SpecProfile *)

\* Number of records so far whose outcome is one of kinds.
NumOutcomes(kinds) == Cardinality({i \in 1..Len(outcomes) : outcomes[i][1] \in kinds})

\* Number of records so far that the iterator itself passed over as kind.
NumDropped(kind) == Cardinality({i \in 1..Len(outcomes) : outcomes[i] = <<"iter", kind>>})

\* C22: in process_records every record whose processing returned Failed or
\* BadInput has added exactly one to the fail count and every Skipped record
\* exactly one to the skip count; only the records processed with Ok have
\* added a profile and used a sampler token; the loop is left only at Done
\* or at the end of the records; and the collection returned carries the
\* iterator's counts plus the loop's.
C22_FailuresAreCounted ==
    /\ n_fails = NumOutcomes({"Failed", "BadInput"})
    /\ n_skips = NumOutcomes({"Skipped"})
    /\ Len(agg) = NumOutcomes({"Ok"})
    /\ tokens_used = NumOutcomes({"Ok"})
    /\ profile_pc = "loop" => NumOutcomes({"Done", "end"}) = 0
    /\ profile_pc = "returned" =>
          /\ outcomes[Len(outcomes)][1] \in {"Done", "end"}
          /\ reads_profile.num_fails = NumDropped("failed") + NumOutcomes({"Failed", "BadInput"})
          /\ reads_profile.num_skips = NumDropped("skipped") + NumOutcomes({"Skipped"})
          /\ reads_profile.profiles = agg

\* A failed record and a record the iterator passed over, then a record that
\* gave a profile, and the collection returned.
C22_Witness ==
    /\ profile_pc = "returned"
    /\ Len(outcomes) = 4
    /\ outcomes[1][1] = "BadInput"
    /\ outcomes[2] = <<"iter", "failed">>
    /\ outcomes[3][1] = "Ok"
    /\ reads_profile.num_fails = 2
    /\ Len(reads_profile.profiles) = 1

\* Sequences without a repeated element.
NoDuplicates(profiles) == \A i, j \in 1..Len(profiles) : profiles[i] = profiles[j] => i = j

\* C29: a ReadsBaseModProfile never holds two profiles with the same record
\* name, neither as returned by process_records nor after a merge.
C29_RecordNamesUnique ==
    /\ NoDuplicates(agg)
    /\ NoDuplicates(reads_profile.profiles)

---------------------------------------------------------------------------
(* Properties of SpecCounts *)

\* C28: every read that has reached the consumer is counted in exactly one
\* of n_used, n_skipped and n_failed, so the three add up to the reads
\* received; in particular the reads the position filter emptied are in
\* n_skipped and not in n_used.
C28_EachReadCountedOnce ==
    n_used + n_skipped + n_failed = reads_reached

---------------------------------------------------------------------------
(* Properties of SpecUpdate *)

\* Number of records written to the output so far.
NumWritten == Cardinality({i \in 1..Len(update_log) : update_log[i] = "written"})

\* C30: the totals Update::run reports account for every record read exactly
\* once: total is the number of records written, and total, total_failed
\* and total_skipped add up to the number of records read.
C30_TotalsAccountForRecords ==
    update_pc = "done" =>
        /\ total = NumWritten
        /\ total + total_failed + total_skipped = Len(update_log)


=============================================================================
